---- MODULE Spec2Model ----
(***************************************************************************)
(* Timetable core of Fast-Timetable-Website: the GViz grid parser          *)
(* (lib/sheets parseClassroomData), the schedule search (searchClasses),   *)
(* the free-room finder, free-slot search and class search of the          *)
(* StudentTimetable component, the schedule API with its server cache and  *)
(* clear-cache endpoint, and fetchGVizData.                                *)
(*                                                                         *)
(* JavaScript strings are modelled as sequences of one-character strings,  *)
(* so that trimming, case folding, substring tests, splitting and the      *)
(* regular expressions are computed character by character.               *)
(* Column and slot indices are the 0-based JavaScript indices; the TLA+    *)
(* sequence position of column j is j + 1.                                 *)
(***************************************************************************)
EXTENDS Integers, Sequences, FiniteSets, TLC

VARIABLES
    pc,             \* position of the request pipeline
    LAB_LOOKAHEAD,  \* process.env.LAB_LOOKAHEAD as a number, 0 when unset
    gvizData,       \* the raw grid handed to parseClassroomData
    parsed,         \* the value returned by parseClassroomData
    cursor,         \* per data row: the (j, span) of every iteration of the column loop
    query,          \* the query handed to searchClasses
    searchResults,  \* the value returned by searchClasses
    finderRange,    \* the (startTime, endTime) handed to findFreeRoomsForTimeRange
    finderResults,  \* the value returned by findFreeRoomsForTimeRange
    clock,          \* the hour and minute a time label is written from
    timeStr,        \* the label handed to the minute parsers
    minutes,        \* the values returned by parseTimeToMinutes and toMinutes
    \* the StudentTimetable component (React state and refs)
    scheduleData,   \* useState(null): the loaded week and single-day schedule
    cacheRef,       \* cacheRef.current.schedule: the client cache of fetched schedules
    inFlight,       \* the day selectors whose fetch has been sent and not answered
    activeTab,      \* useState('search')
    freeQuery,      \* useState(''): the text of the free-slot search box
    freeTimeSlot,   \* useState('all'): the slot chosen in the time picker
    freeResults,    \* useState(null): what the free-slot view shows
    error,          \* useState(null): the message shown to the user
    freeRequest,    \* the free-slot requests made by the last step (history)
    classSearch,    \* the class search: searchQuery, searchResults, its cache and requests
    freeCall,       \* the last call of findFreeScheduleForQuery: its arguments and what it returned
    savedClasses,   \* useState([]): the saved list
    apiParsed,      \* what the API-side parseClassroomData made of gvizData
    poll,           \* the interval of the schedule effect, the sheet it polls and the last tick
    \* the schedule API and the server cache
    cache,          \* the cache object of lib/serverCache
    now,            \* Date.now() of the server, in ms
    handlers,       \* the API handlers that are running, each at its await
    response,       \* the last response sent (history)
    stores,         \* per cache key, the last value stored and when (history)
    upstream,       \* per day id, the state of the day's sheet
    revision,       \* the revision of the sheet's content
    CLEAR_CACHE_SECRET, \* process.env.CLEAR_CACHE_SECRET
    gviz            \* the call of fetchGVizData that getDaySchedule awaits

coreVars == <<pc, LAB_LOOKAHEAD, gvizData, parsed, cursor, query, searchResults,
              finderRange, finderResults, clock, timeStr, minutes>>

pageVars == <<freeCall, savedClasses, poll, apiParsed>>

clientVars == <<scheduleData, cacheRef, inFlight, activeTab, freeQuery, freeTimeSlot,
                freeResults, error, freeRequest, classSearch, pageVars>>

serverVars == <<cache, now, handlers, response, stores, upstream, revision,
                CLEAR_CACHE_SECRET, gviz>>

vars == <<coreVars, clientVars, serverVars>>

(***************************************************************************)
(* Characters and the JavaScript string primitives the code uses.          *)
(***************************************************************************)
Uppers == <<"A","B","C","D","E","F","G","H","I","J","K","L","M",
            "N","O","P","Q","R","S","T","U","V","W","X","Y","Z">>

Lowers == <<"a","b","c","d","e","f","g","h","i","j","k","l","m",
            "n","o","p","q","r","s","t","u","v","w","x","y","z">>

Digits == <<"0","1","2","3","4","5","6","7","8","9">>

IsUpper(ch) == \E k \in DOMAIN Uppers : Uppers[k] = ch

IsLower(ch) == \E k \in DOMAIN Lowers : Lowers[k] = ch

IsDigit(ch) == \E k \in DOMAIN Digits : Digits[k] = ch

\* \w of a JavaScript regular expression
IsWordChar(ch) == IsUpper(ch) \/ IsLower(ch) \/ IsDigit(ch) \/ ch = "_"

\* \s restricted to the blank
IsSpace(ch) == ch = " "

DigitValue(ch) == (CHOOSE k \in DOMAIN Digits : Digits[k] = ch) - 1

\* UTF-16 code unit of a character
CharCode(ch) ==
    IF IsUpper(ch) THEN 64 + (CHOOSE k \in DOMAIN Uppers : Uppers[k] = ch)
    ELSE IF IsLower(ch) THEN 96 + (CHOOSE k \in DOMAIN Lowers : Lowers[k] = ch)
    ELSE IF IsDigit(ch) THEN 48 + DigitValue(ch)
    ELSE CASE ch = " " -> 32
           [] ch = "-" -> 45
           [] ch = ":" -> 58
           [] ch = "@" -> 64
           [] ch = "_" -> 95
           [] ch = "|" -> 124
           [] OTHER -> 126

toLowerCase(s) ==
    [k \in 1..Len(s) |->
        IF IsUpper(s[k]) THEN Lowers[CHOOSE u \in DOMAIN Uppers : Uppers[u] = s[k]]
        ELSE s[k]]

trim(s) ==
    LET kept == {k \in 1..Len(s) : ~IsSpace(s[k])}
    IN  IF kept = {} THEN <<>>
        ELSE LET lo == CHOOSE k \in kept : \A m \in kept : k <= m
                 hi == CHOOSE k \in kept : \A m \in kept : k >= m
             IN  SubSeq(s, lo, hi)

\* 0-based index of the first occurrence of t in s at or after from, -1 if none
indexOf(s, t, from) ==
    LET hits == {k \in from..(Len(s) - Len(t)) : SubSeq(s, k + 1, k + Len(t)) = t}
    IN  IF hits = {} THEN -1 ELSE CHOOSE k \in hits : \A m \in hits : k <= m

includes(s, t) == indexOf(s, t, 0) # -1

\* s.split(sep) for a one-character separator
RECURSIVE split(_, _)
split(s, sep) ==
    LET at == indexOf(s, <<sep>>, 0)
    IN  IF at = -1 THEN <<s>>
        ELSE <<SubSeq(s, 1, at)>> \o split(SubSeq(s, at + 2, Len(s)), sep)

\* \b between position p and p + 1 (1-based positions, p in 0..Len(s))
WordAt(s, p) == p \in 1..Len(s) /\ IsWordChar(s[p])

WordBoundary(s, p) == WordAt(s, p) # WordAt(s, p + 1)

\* /\blab\b/i.test(s)
LabWordTest(s) ==
    \E k \in 1..(Len(s) - 2) :
        /\ toLowerCase(SubSeq(s, k, k + 2)) = <<"l","a","b">>
        /\ WordBoundary(s, k - 1)
        /\ WordBoundary(s, k + 2)

\* /^-+$/.test(s)
AllDashes(s) == Len(s) > 0 /\ \A k \in 1..Len(s) : s[k] = "-"

(***************************************************************************)
(* lib/sheets: extractClassCode and parseClassroomData.                    *)
(***************************************************************************)
\* One attempt of /\b([A-Z]{2,4}-\d{1,2}[A-Z]?)\b/ at 1-based position k with
\* nL letters, nD digits and nO optional trailing letters.
CodeMatchAt(s, k, nL, nD, nO) ==
    LET last == k + nL + nD + nO
    IN  /\ last <= Len(s)
        /\ WordBoundary(s, k - 1)
        /\ \A m \in k..(k + nL - 1) : IsUpper(s[m])
        /\ s[k + nL] = "-"
        /\ \A m \in (k + nL + 1)..(k + nL + nD) : IsDigit(s[m])
        /\ (nO = 1 => IsUpper(s[last]))
        /\ WordBoundary(s, last)

\* Greedy quantifiers: more letters first, then more digits, then the optional letter.
CodeRank(nL, nD, nO) == (4 - nL) * 4 + (2 - nD) * 2 + (1 - nO)

extractClassCode(classString) ==
    IF classString = <<>> THEN <<>>
    ELSE LET tries == {t \in (1..Len(classString)) \X (2..4) \X (1..2) \X (0..1) :
                          CodeMatchAt(classString, t[1], t[2], t[3], t[4])}
         IN  IF tries = {} THEN <<>>
             ELSE LET best == CHOOSE t \in tries : \A u \in tries :
                                  \/ t[1] < u[1]
                                  \/ /\ t[1] = u[1]
                                     /\ CodeRank(t[2], t[3], t[4]) <= CodeRank(u[2], u[3], u[4])
                  IN  SubSeq(classString, best[1], best[1] + best[2] + best[3] + best[4])

\* Encoding of the values a span key of cell.p can hold: a positive number n is
\* itself, Undef is undefined or 0 (falsy), NonNumeric is a string that
\* Number() turns into NaN.
Undef == 0

NonNumeric == -1

\* a || b
JsOr(a, b) == IF a # Undef THEN a ELSE b

\* String(cell.v).trim() of a cell that may be null or carry no value
CellText(cell) == IF ~cell.isNull /\ cell.hasV THEN trim(cell.v) ELSE <<>>

\* span = cell.p.colSpan || cell.p.colspan || cell.p.span || 1; span = Number(span) || 1
SpanOf(cell) ==
    IF ~cell.isNull /\ cell.hasP
    THEN LET raw == JsOr(JsOr(JsOr(cell.p.colSpan, cell.p.colspan), cell.p.span), 1)
         IN  IF raw = NonNumeric THEN 1 ELSE raw
    ELSE 1

DEFAULT_LOOKAHEAD == 5

MAX_LOOKAHEAD(env) == IF env # 0 THEN env ELSE DEFAULT_LOOKAHEAD

\* LookAhead with the bound tested as la < max
RECURSIVE LookAhead_OffByOne(_, _, _, _, _)
LookAhead_OffByOne(c, j, la, max, extra) ==
    IF la >= max THEN extra
    ELSE IF j + la >= Len(c) THEN extra
    ELSE IF CellText(c[j + la + 1]) = <<>>
         THEN LookAhead_OffByOne(c, j, la + 1, max, extra + 1)
    ELSE extra

\* the look-ahead loop of the lab fallback: the value of extra when it ends
RECURSIVE LookAhead(_, _, _, _, _)
LookAhead(c, j, la, max, extra) ==
    IF la > max THEN extra
    ELSE IF j + la >= Len(c) THEN extra
    ELSE IF CellText(c[j + la + 1]) = <<>> THEN LookAhead(c, j, la + 1, max, extra + 1)
    ELSE extra

\* timeSlots.find(ts => ts.index === colIndex): position of the slot, 0 if none
FindSlot(timeSlots, colIndex) ==
    LET hits == {k \in 1..Len(timeSlots) : timeSlots[k].index = colIndex}
    IN  IF hits = {} THEN 0 ELSE CHOOSE k \in hits : \A m \in hits : k <= m

\* SpanLoop that pushes no entry for a cell without text
RECURSIVE SpanLoop_SkipsBlank(_, _, _, _, _)
SpanLoop_SkipsBlank(timeSlots, j, s, span, classInfo) ==
    IF s >= span THEN <<>>
    ELSE LET at == FindSlot(timeSlots, j + s)
         IN  (IF at = 0 \/ classInfo = <<>> THEN <<>>
              ELSE << [timeIndex |-> j + s,
                       time      |-> timeSlots[at].time,
                       class     |-> classInfo,
                       code      |-> extractClassCode(classInfo)] >>)
             \o SpanLoop_SkipsBlank(timeSlots, j, s + 1, span, classInfo)

\* SpanLoop without the test of slotInfo: a column without a time slot gets
\* an entry with an empty time
RECURSIVE SpanLoop_KeepsUnslotted(_, _, _, _, _)
SpanLoop_KeepsUnslotted(timeSlots, j, s, span, classInfo) ==
    IF s >= span THEN <<>>
    ELSE LET at == FindSlot(timeSlots, j + s)
         IN  << [timeIndex |-> j + s,
                 time      |-> IF at = 0 THEN <<>> ELSE timeSlots[at].time,
                 class     |-> classInfo,
                 code      |-> extractClassCode(classInfo)] >>
             \o SpanLoop_KeepsUnslotted(timeSlots, j, s + 1, span, classInfo)

\* the loop over s that pushes one entry per spanned column with a time slot
RECURSIVE SpanLoop(_, _, _, _, _)
SpanLoop(timeSlots, j, s, span, classInfo) ==
    IF s >= span THEN <<>>
    ELSE LET at == FindSlot(timeSlots, j + s)
         IN  (IF at = 0 THEN <<>>
              ELSE << [timeIndex |-> j + s,
                       time      |-> timeSlots[at].time,
                       class     |-> classInfo,
                       code      |-> extractClassCode(classInfo)] >>)
             \o SpanLoop(timeSlots, j, s + 1, span, classInfo)

\* span of the cell at column j after the lab fallback
CellSpan(c, j, env) ==
    LET classInfo == CellText(c[j + 1])
        span      == SpanOf(c[j + 1])
    IN  IF span = 1 /\ classInfo # <<>> /\ LabWordTest(classInfo)
        THEN 1 + LookAhead(c, j, 1, MAX_LOOKAHEAD(env), 0)
        ELSE span

\* ColumnLoop without j += (span - 1)
RECURSIVE ColumnLoop_NoAdvance(_, _, _, _, _)
ColumnLoop_NoAdvance(c, timeSlots, env, j, acc) ==
    IF j >= Len(c) THEN acc
    ELSE LET span == CellSpan(c, j, env)
         IN  ColumnLoop_NoAdvance(c, timeSlots, env, j + 1,
                 [schedule   |-> acc.schedule \o SpanLoop(timeSlots, j, 0, span, CellText(c[j + 1])),
                  iterations |-> Append(acc.iterations, [j |-> j, span |-> span])])

\* the loop over the columns j of one data row: the schedule it builds and the
\* (j, span) of each of its iterations
RECURSIVE ColumnLoop(_, _, _, _, _)
ColumnLoop(c, timeSlots, env, j, acc) ==
    IF j >= Len(c) THEN acc
    ELSE LET span == CellSpan(c, j, env)
             next == (IF span > 1 THEN j + (span - 1) ELSE j) + 1
         IN  ColumnLoop(c, timeSlots, env, next,
                 [schedule   |-> acc.schedule \o SpanLoop(timeSlots, j, 0, span, CellText(c[j + 1])),
                  iterations |-> Append(acc.iterations, [j |-> j, span |-> span])])

\* a < b in UTF-16 code unit order (the default Array.prototype.sort order)
RECURSIVE CodeUnitLess(_, _)
CodeUnitLess(a, b) ==
    IF Len(b) = 0 THEN FALSE
    ELSE IF Len(a) = 0 THEN TRUE
    ELSE IF CharCode(a[1]) # CharCode(b[1]) THEN CharCode(a[1]) < CharCode(b[1])
    ELSE CodeUnitLess(Tail(a), Tail(b))

\* Array.from(set).sort()
RECURSIVE SortedCodes(_)
SortedCodes(S) ==
    IF S = {} THEN <<>>
    ELSE LET least == CHOOSE a \in S : \A b \in S : a = b \/ CodeUnitLess(a, b)
         IN  <<least>> \o SortedCodes(S \ {least})

\* rows[1].c.forEach: the header cells of column >= 1 with a non-blank value
RECURSIVE HeaderLoop(_, _)
HeaderLoop(c, idx) ==
    IF idx >= Len(c) THEN <<>>
    ELSE (IF idx > 0 /\ CellText(c[idx + 1]) # <<>>
          THEN << [index |-> idx, time |-> CellText(c[idx + 1]), label |-> CellText(c[idx + 1])] >>
          ELSE <<>>)
         \o HeaderLoop(c, idx + 1)

HeaderSlots(rows) == IF rows[2].hasC THEN HeaderLoop(rows[2].c, 0) ELSE <<>>

\* RowSkipped without the test of the room name
RowSkipped_KeepsUnnamed(row) == ~row.hasC \/ Len(row.c) = 0

\* the data row is skipped: no cell collection, or a falsy row.c[0]?.v
RowSkipped(row) ==
    \/ ~row.hasC
    \/ Len(row.c) = 0
    \/ row.c[1].isNull
    \/ ~row.c[1].hasV
    \/ row.c[1].v = <<>>

\* positions of the data rows that yield a classroom, in order
RECURSIVE KeptRows(_, _)
KeptRows(rows, i) ==
    IF i > Len(rows) THEN <<>>
    ELSE (IF RowSkipped(rows[i]) THEN <<>> ELSE <<i>>) \o KeptRows(rows, i + 1)

\* the classroom built from one data row
RowClassroom(row, timeSlots, env) ==
    LET done == ColumnLoop(row.c, timeSlots, env, 1, [schedule |-> <<>>, iterations |-> <<>>])
        codes == {done.schedule[k].code : k \in 1..Len(done.schedule)} \ {<<>>}
    IN  [name     |-> trim(row.c[1].v),
         schedule |-> done.schedule,
         classes  |-> SortedCodes(codes)]

EmptyResult == [threw |-> FALSE, classrooms |-> <<>>, timeSlots |-> <<>>]

Thrown == [threw |-> TRUE, classrooms |-> <<>>, timeSlots |-> <<>>]

\* reading .c of a null row raises a TypeError
ThrowsOnRow(rows) == rows[2].isNull \/ \E i \in 3..Len(rows) : rows[i].isNull

parseClassroomData(g, env) ==
    IF ~g.hasTable \/ ~g.hasRows \/ Len(g.rows) < 3 THEN EmptyResult
    ELSE IF ThrowsOnRow(g.rows) THEN Thrown
    ELSE LET timeSlots == HeaderSlots(g.rows)
             kept      == KeptRows(g.rows, 3)
         IN  [threw      |-> FALSE,
              classrooms |-> [k \in 1..Len(kept) |-> RowClassroom(g.rows[kept[k]], timeSlots, env)],
              timeSlots  |-> timeSlots]

(***************************************************************************)
(* The parser of the API-side sheets helper (components/Classes.js).       *)
(***************************************************************************)
\* the loop over the columns j of one data row: the span is that of the
\* cell's metadata, without a fallback for labs
RECURSIVE ApiColumnLoop(_, _, _, _)
ApiColumnLoop(c, timeSlots, j, schedule) ==
    IF j >= Len(c) THEN schedule
    ELSE LET span == SpanOf(c[j + 1])
             next == (IF span > 1 THEN j + (span - 1) ELSE j) + 1
         IN  ApiColumnLoop(c, timeSlots, next,
                 schedule \o SpanLoop(timeSlots, j, 0, span, CellText(c[j + 1])))

ApiRowClassroom(row, timeSlots) ==
    LET schedule == ApiColumnLoop(row.c, timeSlots, 1, <<>>)
        codes    == {schedule[k].code : k \in 1..Len(schedule)} \ {<<>>}
    IN  [name     |-> trim(row.c[1].v),
         schedule |-> schedule,
         classes  |-> SortedCodes(codes)]

ApiParseClassroomData(g) ==
    IF ~g.hasTable \/ ~g.hasRows \/ Len(g.rows) < 3 THEN EmptyResult
    ELSE IF ThrowsOnRow(g.rows) THEN Thrown
    ELSE LET timeSlots == HeaderSlots(g.rows)
             kept      == KeptRows(g.rows, 3)
         IN  [threw      |-> FALSE,
              classrooms |-> [k \in 1..Len(kept) |-> ApiRowClassroom(g.rows[kept[k]], timeSlots)],
              timeSlots  |-> timeSlots]

\* the (j, span) iterations of the column loop, per classroom
CursorTrace(g, env) ==
    IF ~g.hasTable \/ ~g.hasRows \/ Len(g.rows) < 3 \/ ThrowsOnRow(g.rows) THEN <<>>
    ELSE LET timeSlots == HeaderSlots(g.rows)
             kept      == KeptRows(g.rows, 3)
         IN  [k \in 1..Len(kept) |->
                 ColumnLoop(g.rows[kept[k]].c, timeSlots, env, 1,
                            [schedule |-> <<>>, iterations |-> <<>>]).iterations]

(***************************************************************************)
(* lib/sheets: searchClasses.                                              *)
(***************************************************************************)
\* primary collation weight of a character: blank, punctuation, symbols,
\* digits, letters (letters of either case weigh the same)
CollationWeight(ch) ==
    IF IsUpper(ch) THEN 20 + (CHOOSE k \in DOMAIN Uppers : Uppers[k] = ch)
    ELSE IF IsLower(ch) THEN 20 + (CHOOSE k \in DOMAIN Lowers : Lowers[k] = ch)
    ELSE IF IsDigit(ch) THEN 10 + DigitValue(ch)
    ELSE CASE ch = " " -> 1
           [] ch = "_" -> 2
           [] ch = "-" -> 3
           [] ch = ":" -> 4
           [] ch = "@" -> 5
           [] ch = "|" -> 6
           [] OTHER -> 7

\* tertiary weight: a lower-case letter before its upper-case form
CaseWeight(ch) == IF IsUpper(ch) THEN 1 ELSE 0

LevelWeight(level, ch) == IF level = "primary" THEN CollationWeight(ch) ELSE CaseWeight(ch)

\* sign of the first difference of the weights of a and b at a collation
\* level, a prefix first
RECURSIVE CompareAt(_, _, _)
CompareAt(level, a, b) ==
    IF Len(a) = 0 /\ Len(b) = 0 THEN 0
    ELSE IF Len(a) = 0 THEN -1
    ELSE IF Len(b) = 0 THEN 1
    ELSE IF LevelWeight(level, a[1]) < LevelWeight(level, b[1]) THEN -1
    ELSE IF LevelWeight(level, a[1]) > LevelWeight(level, b[1]) THEN 1
    ELSE CompareAt(level, Tail(a), Tail(b))

\* a.localeCompare(b): primary weights first, case only to break a tie
localeCompare(a, b) ==
    IF CompareAt("primary", a, b) # 0 THEN CompareAt("primary", a, b)
    ELSE CompareAt("case", a, b)

\* the test of the first pass: the term is in the text, the code or the room name
SlotMatches(classroom, slot, searchTerm) ==
    \/ includes(toLowerCase(slot.class), searchTerm)
    \/ includes(toLowerCase(slot.code), searchTerm)
    \/ includes(toLowerCase(classroom.name), searchTerm)

\* `${classroom.name}|${slot.class}`
GroupKey(classroom, slot) == classroom.name \o <<"|">> \o slot.class

\* the matching slots of one classroom, each with its key, in schedule order
RECURSIVE RoomHits(_, _, _)
RoomHits(classroom, searchTerm, m) ==
    IF m > Len(classroom.schedule) THEN <<>>
    ELSE (IF SlotMatches(classroom, classroom.schedule[m], searchTerm)
          THEN << [key |-> GroupKey(classroom, classroom.schedule[m]),
                   slot |-> classroom.schedule[m]] >>
          ELSE <<>>)
         \o RoomHits(classroom, searchTerm, m + 1)

\* first pass: the matching slots of all classrooms, in order
RECURSIVE AllHits(_, _, _)
AllHits(classrooms, searchTerm, k) ==
    IF k > Len(classrooms) THEN <<>>
    ELSE RoomHits(classrooms[k], searchTerm, 1) \o AllHits(classrooms, searchTerm, k + 1)

\* the keys of resultsMap in insertion order
RECURSIVE KeysInOrder(_, _)
KeysInOrder(hits, seen) ==
    IF Len(hits) = 0 THEN <<>>
    ELSE IF hits[1].key \in seen THEN KeysInOrder(Tail(hits), seen)
    ELSE <<hits[1].key>> \o KeysInOrder(Tail(hits), seen \cup {hits[1].key})

\* resultsMap[key]: the slots pushed under the key, in order
RECURSIVE SlotsOfKey(_, _)
SlotsOfKey(hits, key) ==
    IF Len(hits) = 0 THEN <<>>
    ELSE (IF hits[1].key = key THEN <<hits[1].slot>> ELSE <<>>) \o SlotsOfKey(Tail(hits), key)

\* (a, b) => (a.timeIndex || 0) - (b.timeIndex || 0)
ByTimeIndex(a, b) == a.timeIndex - b.timeIndex

\* the comparator of the final sort: code first, then time
ByCodeThenTime(a, b) ==
    IF a.code # b.code THEN localeCompare(a.code, b.code)
    ELSE localeCompare(a.time, b.time)

Comparator(order, a, b) ==
    IF order = "timeIndex" THEN ByTimeIndex(a, b) ELSE ByCodeThenTime(a, b)

\* stable insertion of x into a sequence sorted by the comparator
RECURSIVE InsertSorted(_, _, _)
InsertSorted(order, sorted, x) ==
    IF Len(sorted) = 0 THEN <<x>>
    ELSE IF Comparator(order, sorted[Len(sorted)], x) <= 0 THEN Append(sorted, x)
    ELSE Append(InsertSorted(order, SubSeq(sorted, 1, Len(sorted) - 1), x), sorted[Len(sorted)])

\* Array.prototype.sort with a comparator (stable)
RECURSIVE SortBy(_, _)
SortBy(order, items) ==
    IF Len(items) = 0 THEN <<>>
    ELSE InsertSorted(order, SortBy(order, SubSeq(items, 1, Len(items) - 1)), items[Len(items)])

ResultItem(classroomName, classText, code, time) ==
    [classroom   |-> classroomName,
     class       |-> classText,
     code        |-> code,
     time        |-> time,
     description |-> code \o <<" ","@"," ">> \o classroomName \o <<" ","a","t"," ">> \o time]

\* the inner while loop: the position after the run of index-contiguous slots
\* that ends at endAt
RECURSIVE RunEnd(_, _, _)
RunEnd(slots, endAt, j) ==
    IF j <= Len(slots) /\ slots[j].timeIndex = slots[endAt].timeIndex + 1
    THEN RunEnd(slots, j, j + 1)
    ELSE j

\* endTime.split('-')[1].trim() raises a TypeError when the label has no '-'
MergeThrows(endTime) == Len(split(endTime, "-")) < 2

MergedTime(startTime, endTime) ==
    trim(split(startTime, "-")[1]) \o <<"-">> \o trim(split(endTime, "-")[2])

\* the outer while loop over the sorted slots of a lab group, from position i
RECURSIVE LabLoop(_, _, _, _)
LabLoop(classroomName, classText, slots, i) ==
    IF i > Len(slots) THEN [threw |-> FALSE, results |-> <<>>]
    ELSE LET j    == RunEnd(slots, i, i + 1)
             rest == LabLoop(classroomName, classText, slots, j)
         IN  IF j - 1 # i /\ MergeThrows(slots[j - 1].time)
             THEN [threw |-> TRUE, results |-> <<>>]
             ELSE [threw   |-> rest.threw,
                   results |-> <<ResultItem(classroomName, classText, slots[i].code,
                                     IF j - 1 = i THEN slots[i].time
                                     ELSE MergedTime(slots[i].time, slots[j - 1].time))>>
                               \o rest.results]

\* classText.toLowerCase().includes('lab')
IsLabGroup(classText) == includes(toLowerCase(classText), <<"l","a","b">>)

\* second pass for one key of resultsMap
GroupResults(key, slots) ==
    LET parts         == split(key, "|")
        classroomName == parts[1]
        classText     == parts[2]
        sorted        == SortBy("timeIndex", slots)
    IN  IF ~IsLabGroup(classText)
        THEN [threw   |-> FALSE,
              results |-> [m \in 1..Len(sorted) |->
                              ResultItem(classroomName, classText, sorted[m].code, sorted[m].time)]]
        ELSE LabLoop(classroomName, classText, sorted, 1)

\* second pass over the keys in order
RECURSIVE SecondPass(_, _)
SecondPass(keys, hits) ==
    IF Len(keys) = 0 THEN [threw |-> FALSE, results |-> <<>>]
    ELSE LET first == GroupResults(keys[1], SlotsOfKey(hits, keys[1]))
             rest  == SecondPass(Tail(keys), hits)
         IN  [threw   |-> first.threw \/ rest.threw,
              results |-> first.results \o rest.results]

searchClasses(classrooms, q) ==
    IF Len(trim(q)) = 0 THEN [threw |-> FALSE, results |-> <<>>]
    ELSE LET searchTerm == trim(toLowerCase(q))
             hits       == AllHits(classrooms, searchTerm, 1)
             merged     == SecondPass(KeysInOrder(hits, {}), hits)
         IN  IF merged.threw THEN [threw |-> TRUE, results |-> <<>>]
             ELSE [threw |-> FALSE, results |-> SortBy("codeThenTime", merged.results)]

(***************************************************************************)
(* StudentTimetable: the minute parsers and findFreeRoomsForTimeRange.     *)
(***************************************************************************)
\* parseInt(s, 10) of a string of digits
RECURSIVE ParseInt(_)
ParseInt(ds) ==
    IF Len(ds) = 0 THEN 0
    ELSE 10 * ParseInt(SubSeq(ds, 1, Len(ds) - 1)) + DigitValue(ds[Len(ds)])

AllDigits(s, from, to) == to <= Len(s) /\ \A k \in from..to : IsDigit(s[k])

\* the number of hour digits /^(\d{1,2}):(\d{2})/ matches with, 0 if it does
\* not match: two digits are tried before one
ClockMatch(t) ==
    IF AllDigits(t, 1, 2) /\ Len(t) >= 3 /\ t[3] = ":" /\ AllDigits(t, 4, 5) THEN 2
    ELSE IF AllDigits(t, 1, 1) /\ Len(t) >= 2 /\ t[2] = ":" /\ AllDigits(t, 3, 4) THEN 1
    ELSE 0

\* the value null of toMinutes
NullMinutes == -1

\* parseTimeToMinutes with the hours of the afternoon taken as 1 <= h <= 8
parseTimeToMinutes_PmUpTo8(t) ==
    IF Len(t) = 0 THEN 0
    ELSE IF ClockMatch(t) = 0 THEN 0
    ELSE LET n       == ClockMatch(t)
             hours   == ParseInt(SubSeq(t, 1, n))
             mins    == ParseInt(SubSeq(t, n + 2, n + 3))
         IN  (IF hours >= 1 /\ hours <= 8 THEN hours + 12 ELSE hours) * 60 + mins

parseTimeToMinutes(t) ==
    IF Len(t) = 0 THEN 0
    ELSE IF ClockMatch(t) = 0 THEN 0
    ELSE LET n       == ClockMatch(t)
             hours   == ParseInt(SubSeq(t, 1, n))
             mins    == ParseInt(SubSeq(t, n + 2, n + 3))
         IN  (IF hours >= 1 /\ hours < 8 THEN hours + 12 ELSE hours) * 60 + mins

\* toMinutes of findFreeRoomsForTimeRange
toMinutes(t) ==
    IF Len(t) = 0 THEN NullMinutes
    ELSE IF ClockMatch(t) = 0 THEN NullMinutes
    ELSE LET n  == ClockMatch(t)
             h  == ParseInt(SubSeq(t, 1, n))
             mm == ParseInt(SubSeq(t, n + 2, n + 3))
         IN  (IF h >= 1 /\ h < 8 THEN h + 12 ELSE h) * 60 + mm

\* timeSlots.filter: the slots whose start minute is in [startMin, endMin),
\* with the end of the range included
OverlappingSlots_EndIncluded(timeSlots, startMin, endMin) ==
    SelectSeq(timeSlots,
              LAMBDA slot : /\ Len(slot.time) > 0
                            /\ toMinutes(slot.time) # NullMinutes
                            /\ toMinutes(slot.time) >= startMin
                            /\ toMinutes(slot.time) <= endMin)

\* timeSlots.filter: the slots whose start minute is in [startMin, endMin)
OverlappingSlots(timeSlots, startMin, endMin) ==
    SelectSeq(timeSlots,
              LAMBDA slot : /\ Len(slot.time) > 0
                            /\ toMinutes(slot.time) # NullMinutes
                            /\ toMinutes(slot.time) >= startMin
                            /\ toMinutes(slot.time) < endMin)

\* (scheduleEntry?.class || '').trim() of the first entry at the slot's index
ClassValueAt(classroom, slot) ==
    LET at == {m \in 1..Len(classroom.schedule) : classroom.schedule[m].timeIndex = slot.index}
    IN  IF at = {} THEN <<>>
        ELSE trim(classroom.schedule[CHOOSE m \in at : \A o \in at : m <= o].class)

\* overlappingSlots.every: no class, or only dashes, at every slot
FreeAtAll(classroom, overlapping) ==
    \A k \in 1..Len(overlapping) :
        \/ Len(ClassValueAt(classroom, overlapping[k])) = 0
        \/ AllDashes(ClassValueAt(classroom, overlapping[k]))

DEFAULT_CAPACITY == 50

FreeRoom(classroom) ==
    [name     |-> classroom.name,
     schedule |-> classroom.schedule,
     capacity |-> DEFAULT_CAPACITY,
     floor    |-> "1st Floor"]

\* classrooms.forEach of findFreeRoomsForTimeRange
RECURSIVE FreeLoop(_, _, _, _, _)
FreeLoop(classrooms, timeSlots, startMin, endMin, k) ==
    IF k > Len(classrooms) THEN <<>>
    ELSE LET overlapping == OverlappingSlots(timeSlots, startMin, endMin)
         IN  (IF /\ Len(classrooms[k].name) > 0
                 /\ Len(overlapping) > 0
                 /\ FreeAtAll(classrooms[k], overlapping)
              THEN <<FreeRoom(classrooms[k])>>
              ELSE <<>>)
             \o FreeLoop(classrooms, timeSlots, startMin, endMin, k + 1)

\* scheduleData: null, or the week as a function from the loaded day names to
\* the day's data
NoScheduleData == [isNull |-> TRUE, week |-> <<>>]

findFreeRoomsForTimeRange(data, dayName, startTime, endTime) ==
    IF data.isNull THEN <<>>
    ELSE IF dayName \notin DOMAIN data.week THEN <<>>
    ELSE LET classrooms == data.week[dayName].classrooms
             timeSlots  == data.week[dayName].timeSlots
         IN  IF Len(classrooms) = 0 \/ Len(timeSlots) = 0 THEN <<>>
             ELSE IF toMinutes(startTime) = NullMinutes \/ toMinutes(endTime) = NullMinutes
                  THEN <<>>
             ELSE FreeLoop(classrooms, timeSlots, toMinutes(startTime), toMinutes(endTime), 1)

(***************************************************************************)
(* Raw grids: the shapes a GViz response can take.                         *)
(***************************************************************************)
MaxCols == 3

NoSpanKeys == [colSpan |-> Undef, colspan |-> Undef, span |-> Undef]

NullCell == [isNull |-> TRUE, hasV |-> FALSE, v |-> <<>>, hasP |-> FALSE, p |-> NoSpanKeys]

\* {v: null}
NoValueCell == [isNull |-> FALSE, hasV |-> FALSE, v |-> <<>>, hasP |-> FALSE, p |-> NoSpanKeys]

\* {v: text}
Cell(text) == [isNull |-> FALSE, hasV |-> TRUE, v |-> text, hasP |-> FALSE, p |-> NoSpanKeys]

\* {v: text, p: meta}
CellP(text, meta) == [isNull |-> FALSE, hasV |-> TRUE, v |-> text, hasP |-> TRUE, p |-> meta]

TxtLab == <<"L","a","b"," ","C","S","-","1","A">>

TxtOrd == <<"C","S","-","2","B"," ","O","S">>

TxtCollab == <<"C","o","l","l","a","b"," ","C","S","-","1","A">>

TxtPipe == <<"A","I","|","L","a","b">>

TxtDashes == <<"-","-">>

TxtBlank == <<" ">>

NameA == <<"A","1">>

NameB == <<" ","B","-","2"," ">>

NamePipe == <<"A","1","|","A","I">>

TwoDigits(n) == <<Digits[(n \div 10) + 1], Digits[(n % 10) + 1]>>

OneOrTwoDigits(n) == IF n < 10 THEN <<Digits[n + 1]>> ELSE TwoDigits(n)

\* the label of the slot of column k as the sheet writes it: 08:00-08:50, ...,
\* 12:00-12:50, then 1:00-1:50, 2:00-2:50, ... (afternoon hours on a 12-hour dial)
SlotLabel(k) ==
    LET h  == 7 + k
        hh == IF h > 12 THEN OneOrTwoDigits(h - 12) ELSE TwoDigits(h)
    IN  hh \o <<":","0","0","-">> \o hh \o <<":","5","0">>

TxtTBA == <<"T","B","A">>

CornerCell == Cell(<<"V","e","n","u","e","s">>)

RowOf(cells) == [isNull |-> FALSE, hasC |-> TRUE, c |-> cells]

NullRow == [isNull |-> TRUE, hasC |-> FALSE, c |-> <<>>]

\* {} : a row object without a cell collection
NoCellsRow == [isNull |-> FALSE, hasC |-> FALSE, c |-> <<>>]

HeaderKinds == {"full", "gap", "short", "long", "tba", "pm"}

\* rows[1]: the time labels of n columns; "gap" leaves column 2 blank, "short"
\* has no label for the last column, "long" labels one more column, "tba"
\* labels column 2 with a text that is no start-end range, "pm" starts the
\* day at 12:00
HeaderRow(kind, n) ==
    LET width == CASE kind = "short" -> n - 1
                   [] kind = "long"  -> n + 1
                   [] OTHER          -> n
    IN  RowOf(<<CornerCell>> \o
              [k \in 1..width |->
                  IF k = 2 /\ kind = "gap" THEN Cell(TxtBlank)
                  ELSE IF k = 2 /\ kind = "tba" THEN Cell(TxtTBA)
                  ELSE IF kind = "pm" THEN Cell(SlotLabel(k + 4))
                  ELSE Cell(SlotLabel(k))])

NumberRow == RowOf(<<>>)

Grid(rows) == [hasTable |-> TRUE, hasRows |-> TRUE, rows |-> rows]

DataRow(name, cells) == RowOf(<<Cell(name)>> \o cells)

SheetOf(kind, n, dataRows) == Grid(<<NumberRow, HeaderRow(kind, n)>> \o dataRows)

\* the cells a data row is drawn from when the claim is about spans
SpanCells ==
    { NullCell, Cell(TxtBlank), Cell(TxtLab), Cell(TxtOrd),
      CellP(TxtLab, [NoSpanKeys EXCEPT !.colSpan = 2]),
      CellP(TxtLab, [NoSpanKeys EXCEPT !.span = 1]) }

\* one data row of MaxCols cells under a full header, one with a column
\* without label and one that ends a column early
SpanGrids ==
    { SheetOf(kind, n, <<DataRow(NameA, cells)>>) :
        kind \in {"full", "gap", "short"}, n \in {MaxCols},
        cells \in [1..MaxCols -> SpanCells] }

\* rarer cell shapes: other span keys and values, metadata without span keys
OddCells ==
    { NoValueCell, Cell(TxtLab),
      CellP(TxtOrd, [NoSpanKeys EXCEPT !.colspan = 3]),
      CellP(TxtOrd, [NoSpanKeys EXCEPT !.colSpan = NonNumeric]),
      CellP(TxtLab, NoSpanKeys) }

OddGrids ==
    { SheetOf("full", MaxCols, <<DataRow(NameA, cells)>>) : cells \in [1..MaxCols -> OddCells] }

\* a lab cell followed by DEFAULT_LOOKAHEAD + 1 cells, each blank or not
LongCols == DEFAULT_LOOKAHEAD + 2

LongLabGrids ==
    { SheetOf("full", LongCols, <<DataRow(NameA, <<Cell(TxtLab)>> \o rest)>>) :
        rest \in [1..(LongCols - 1) -> {NoValueCell, Cell(TxtOrd)}] }

\* rows of different lengths and names, and malformed rows
ShortRows ==
    { DataRow(NameA, <<Cell(TxtLab)>>), DataRow(NameB, <<Cell(TxtOrd), NullCell>>),
      DataRow(TxtBlank, <<Cell(TxtOrd)>>), DataRow(<<>>, <<Cell(TxtOrd)>>),
      RowOf(<<NullCell, Cell(TxtOrd)>>), RowOf(<<NoValueCell, Cell(TxtOrd)>>),
      RowOf(<<>>), NoCellsRow, NullRow }

RowGrids ==
    { SheetOf("full", 2, <<r1, r2>>) : r1 \in ShortRows, r2 \in ShortRows }

\* degenerate grids: no table, no rows, fewer than 3 rows, rows[1] malformed
DegenerateGrids ==
    { [hasTable |-> FALSE, hasRows |-> FALSE, rows |-> <<>>],
      [hasTable |-> TRUE, hasRows |-> FALSE, rows |-> <<>>],
      Grid(<<>>), Grid(<<NumberRow>>), Grid(<<NumberRow, HeaderRow("full", 2)>>),
      Grid(<<NumberRow, NoCellsRow>>), Grid(<<NumberRow, NullRow>>) }
    \cup { Grid(<<NumberRow, h, r>>) : h \in {NoCellsRow, NullRow, RowOf(<<>>)},
                                       r \in ShortRows }

\* the cells of the sheets that are searched: no text, a lab, a text that
\* contains "lab" inside a word, a text with a '|', an ordinary class
SearchCells == {NoValueCell, Cell(TxtLab), Cell(TxtCollab), Cell(TxtPipe), Cell(TxtOrd)}

\* one room of MaxCols cells, and two rooms of two cells with equal or different names
SearchGrids ==
    { SheetOf(kind, MaxCols, <<DataRow(name, cells)>>) :
        kind \in {"full", "tba"}, name \in {NameA, NamePipe},
        cells \in [1..MaxCols -> SearchCells] }
    \cup
    { SheetOf("full", 2, <<DataRow(NameA, c1), DataRow(name, c2)>>) :
        name \in {NameA, NameB},
        c1 \in [1..2 -> {NoValueCell, Cell(TxtLab), Cell(TxtOrd)}],
        c2 \in [1..2 -> {NoValueCell, Cell(TxtLab), Cell(TxtOrd)}] }

\* queries: a code fragment, the word lab in capitals, a room name, a blank
Queries == { <<"c","s","-">>, <<"L","A","B"," ">>, <<"a","1">>, <<" ">> }

\* the sheets the free-room finder runs on: one room (with or without a
\* name) of MaxCols cells, and two rooms of two cells
FinderCells == {NoValueCell, Cell(TxtOrd), Cell(TxtDashes), Cell(TxtLab)}

FinderGrids ==
    { SheetOf(kind, MaxCols, <<DataRow(name, cells)>>) :
        kind \in {"full", "tba", "pm"}, name \in {NameA, TxtBlank},
        cells \in [1..MaxCols -> FinderCells] }
    \cup
    { SheetOf("full", 2, <<DataRow(NameA, c1), DataRow(NameB, c2)>>) :
        c1 \in [1..2 -> {NoValueCell, Cell(TxtOrd), Cell(TxtDashes)}],
        c2 \in [1..2 -> {NoValueCell, Cell(TxtOrd), Cell(TxtDashes)}] }

Clock(h, m) == OneOrTwoDigits(h) \o <<":">> \o TwoDigits(m)

PaddedClock(h, m) == TwoDigits(h) \o <<":">> \o TwoDigits(m)

\* the (start, end) pairs of the finder form
FinderRanges ==
    { <<PaddedClock(8, 0), PaddedClock(10, 0)>>, <<PaddedClock(8, 0), PaddedClock(9, 0)>>,
      <<PaddedClock(12, 0), Clock(2, 0)>>, <<PaddedClock(6, 0), PaddedClock(7, 30)>>,
      <<PaddedClock(10, 0), PaddedClock(8, 0)>>, <<TxtTBA, PaddedClock(10, 0)>> }

NoRange == [day |-> "", start |-> <<>>, end |-> <<>>]

NoClock == [h |-> 0, m |-> 0]

NoMinutes == [parseTimeToMinutes |-> 0, toMinutes |-> 0]

ParseGrids == SpanGrids \cup OddGrids \cup LongLabGrids \cup RowGrids \cup DegenerateGrids

NoSearch == [threw |-> FALSE, results |-> <<>>]

TypeOK ==
    /\ pc \in {"fetched", "parsed", "failed", "searched", "finder", "label", "minutes", "client"}
    /\ clock.h \in 0..23 /\ clock.m \in 0..59
    /\ LAB_LOOKAHEAD \in 0..DEFAULT_LOOKAHEAD
    /\ parsed.threw \in BOOLEAN

(***************************************************************************)
(* The schedule API (pages/api/schedule), the server cache                 *)
(* (lib/serverCache) and the clear-cache endpoint.  A handler runs up to   *)
(* its next await in one step; the sheet behind getDaySchedule is a        *)
(* revision number and, per day, whether the sheet is served ("ok"),       *)
(* fails to load ("down"), or loads with a time label that searchClasses   *)
(* cannot split ("anomalous").                                             *)
(***************************************************************************)
days == <<"Monday", "Tuesday", "Wednesday", "Thursday", "Friday">>

MaxInFlight == 1

MaxTicks == 2

MaxEdits == 1

CACHE_TTL_MS == 30000

\* a request parameter or header: absent, or a string
Missing == [given |-> FALSE, s |-> <<>>]

Given(s) == [given |-> TRUE, s |-> s]

\* a map of a JavaScript object: the keys that are set and their values
EmptyMap == [k \in {} |-> 0]

Put(map, key, value) == [k \in DOMAIN map \cup {key} |-> IF k = key THEN value ELSE map[k]]

\* the request a search result was computed for (history)
NoScope == [query |-> <<>>, day |-> [kind |-> "undefined", n |-> 0]]

\* null, or an object with the fields of the results of getDaySchedule and
\* searchAcrossAllDays and of the week mapping
NullValue == [isNull |-> TRUE, success |-> FALSE, day |-> "", data |-> 0, week |-> EmptyMap,
              query |-> <<>>, results |-> {}, scope |-> NoScope]

\* const cache = { schedule: {}, search: {}, week: null, lastFetchTime: {...} }
EmptyCache ==
    [schedule |-> EmptyMap, search |-> EmptyMap, week |-> NullValue,
     lastFetchTime |-> [schedule |-> EmptyMap, search |-> EmptyMap, week |-> 0]]

\* isValid with <= in place of <
isValid_TtlIncluded(c, t, kind, key) ==
    IF kind = "week"
    THEN ~c.week.isNull /\ (t - c.lastFetchTime.week) <= CACHE_TTL_MS
    ELSE LET map   == IF kind = "search" THEN c.search ELSE c.schedule
             times == IF kind = "search" THEN c.lastFetchTime.search
                                         ELSE c.lastFetchTime.schedule
         IN  /\ key \in DOMAIN map
             /\ (t - (IF key \in DOMAIN times THEN times[key] ELSE 0)) <= CACHE_TTL_MS

isValid(c, t, kind, key) ==
    IF kind = "week"
    THEN ~c.week.isNull /\ (t - c.lastFetchTime.week) < CACHE_TTL_MS
    ELSE LET map   == IF kind = "search" THEN c.search ELSE c.schedule
             times == IF kind = "search" THEN c.lastFetchTime.search
                                         ELSE c.lastFetchTime.schedule
         IN  /\ key \in DOMAIN map
             /\ (t - (IF key \in DOMAIN times THEN times[key] ELSE 0)) < CACHE_TTL_MS

get(c, kind, key) ==
    IF kind = "week" THEN c.week
    ELSE IF kind = "search" THEN c.search[key] ELSE c.schedule[key]

set(c, t, kind, key, value) ==
    IF kind = "week"
    THEN [c EXCEPT !.week = value, !.lastFetchTime.week = t]
    ELSE IF kind = "search"
    THEN [c EXCEPT !.search = Put(@, key, value), !.lastFetchTime.search = Put(@, key, t)]
    ELSE [c EXCEPT !.schedule = Put(@, key, value), !.lastFetchTime.schedule = Put(@, key, t)]

clearAll(c) == EmptyCache

\* parseInt(s, 10) of an unsigned string: the leading digits, NaN without any
RECURSIVE LeadingDigits(_)
LeadingDigits(s) ==
    IF Len(s) = 0 \/ ~IsDigit(s[1]) THEN <<>>
    ELSE <<s[1]>> \o LeadingDigits(Tail(s))

\* the day parameter after normalizeDayParam: undefined, 'all' or a number
UndefinedDay == [kind |-> "undefined", n |-> 0]

AllDays == [kind |-> "all", n |-> 0]

DayNumber(n) == [kind |-> "number", n |-> n]

\* getDay is the weekday of the server clock, 0 = Sunday .. 6 = Saturday
normalizeDayParam(dayParam, getDay) ==
    IF ~dayParam.given THEN UndefinedDay
    ELSE LET s == toLowerCase(dayParam.s)
         IN  IF s = <<"a","l","l">> \/ s = <<"w","e","e","k">> THEN AllDays
             ELSE IF s = <<"t","o","d","a","y">>
                  THEN DayNumber(IF getDay = 0 \/ getDay = 6 THEN 0 ELSE getDay - 1)
             ELSE IF LeadingDigits(s) # <<>>
                  THEN LET n == ParseInt(LeadingDigits(s))
                       IN  DayNumber(IF n = 6 \/ n = 0 THEN 0 ELSE n)
             ELSE UndefinedDay

\* String(n) for n >= 0
RECURSIVE NumberString(_)
NumberString(n) ==
    IF n < 10 THEN <<Digits[n + 1]>>
    ELSE NumberString(n \div 10) \o <<Digits[(n % 10) + 1]>>

\* String(params.day)
DayString(day) ==
    IF day.kind = "all" THEN <<"a","l","l">>
    ELSE IF day.kind = "undefined" THEN <<"u","n","d","e","f","i","n","e","d">>
    ELSE NumberString(day.n)

\* dayParam || 'all'
DayOrAll(day) == IF day.kind = "undefined" \/ (day.kind = "number" /\ day.n = 0) THEN AllDays ELSE day

getCacheKey(action, params) ==
    IF action = "search" THEN params.query \o <<":">> \o DayString(params.day)
    ELSE DayString(params.day)

\* getDaySchedule: an invalid day id, a failing fetch and a throwing parser
\* all end in the catch block
getDaySchedule(dayId, sheets, rev) ==
    IF dayId < 0 \/ dayId > 4 \/ sheets[dayId] = "down"
    THEN [NullValue EXCEPT !.isNull = FALSE]
    ELSE [NullValue EXCEPT !.isNull = FALSE, !.success = TRUE, !.day = days[dayId + 1],
                           !.data = rev]

\* the days runSearchForDay is run for
SearchedDays(day) ==
    IF day.kind = "all" \/ day.kind = "undefined" THEN 0..4
    ELSE IF day.n >= 0 /\ day.n <= 4 THEN {day.n} ELSE {}

\* searchAcrossAllDays(query, day): results names the days whose sheet was
\* loaded and searched; a throw of searchClasses on any searched day, or an
\* invalid day number, ends in the catch block.  scope is the request the
\* result was computed for (history)
searchAcrossAllDays(q, day, sheets, rev, scope) ==
    IF \/ day.kind = "number" /\ (day.n < 0 \/ day.n > 4)
       \/ \E d \in SearchedDays(day) : sheets[d] = "anomalous"
    THEN [NullValue EXCEPT !.isNull = FALSE, !.scope = scope]
    ELSE [NullValue EXCEPT !.isNull = FALSE, !.success = TRUE, !.query = q, !.data = rev,
                           !.results = { days[d + 1] : d \in { x \in SearchedDays(day) :
                                                               sheets[x] = "ok" } },
                           !.scope = scope]

\* week[r.day] = r.data, whatever r.success
WeekWith_AddsFailed(week, r) == Put(week, r.day, r.data)

\* if (r.success) week[r.day] = r.data
WeekWith(week, r) == IF r.success THEN Put(week, r.day, r.data) ELSE week

\* a handler that is not running; recent, recentKept and recentValue record
\* what the store log said when the handler looked into the cache (history)
IdleHandler ==
    [pc |-> "idle", day |-> UndefinedDay, query |-> <<>>, cacheKey |-> <<>>,
     d |-> 0, week |-> EmptyMap, succeeded |-> {},
     recent |-> FALSE, recentKept |-> FALSE, recentValue |-> NullValue]

\* the last response sent, with the request it answers; fetched, cleared and
\* changed tell whether the handler called getDaySchedule or
\* searchAcrossAllDays, cleared the cache, or wrote to it (history)
NoResponse ==
    [kind |-> "none", status |-> 0, success |-> FALSE, cached |-> FALSE, body |-> NullValue,
     day |-> UndefinedDay, query |-> Missing, cacheKey |-> <<>>, succeeded |-> {},
     method |-> "GET", provided |-> Missing,
     recent |-> FALSE, recentKept |-> FALSE, recentValue |-> NullValue,
     fetched |-> FALSE, cleared |-> FALSE, changed |-> FALSE]

\* the last store of a day-fetch key, kept when the cache is cleared (history)
StoreKey(kind, key) == <<kind, IF kind = "week" THEN <<>> ELSE key>>

Recent(log, t, kind, key) ==
    /\ StoreKey(kind, key) \in DOMAIN log
    /\ t - log[StoreKey(kind, key)].time < CACHE_TTL_MS

RecentKept(log, t, kind, key) ==
    Recent(log, t, kind, key) /\ ~log[StoreKey(kind, key)].cleared

RecentValue(log, t, kind, key) ==
    IF Recent(log, t, kind, key) THEN log[StoreKey(kind, key)].value ELSE NullValue

Stored(log, t, kind, key, value) ==
    Put(log, StoreKey(kind, key), [time |-> t, value |-> value, cleared |-> FALSE])

ClearedLog(log) == [k \in DOMAIN log |-> [log[k] EXCEPT !.cleared = TRUE]]

\* the sheets of the five days
AllOk == [d \in 0..4 |-> "ok"]

\* the sheets behind the day fetch: all served, Tuesday down, Monday and
\* Friday down, all down
FetchSheets ==
    { AllOk,
      [AllOk EXCEPT ![1] = "down"],
      [AllOk EXCEPT ![0] = "down", ![4] = "down"],
      [d \in 0..4 |-> "down"] }

\* the sheets behind the search: all served, Tuesday down, Wednesday's sheet
\* with a label searchClasses cannot split
SearchSheets ==
    { AllOk,
      [AllOk EXCEPT ![1] = "down"],
      [AllOk EXCEPT ![2] = "anomalous"] }

\* the day parameter of a fetch: Monday under four spellings, the week, a
\* number that is no day, and no selector
FetchDays ==
    { Missing, Given(<<"a","l","l">>), Given(<<"T","o","d","a","y">>), Given(<<"0">>),
      Given(<<"6">>), Given(<<"7">>), Given(<<"x">>) }

\* the day parameter of a search
SearchDays ==
    { Missing, Given(<<"a","l","l">>), Given(<<"T","o","d","a","y">>), Given(<<"0">>),
      Given(<<"1">>) }

\* Sunday, Monday
GetDays == {0, 1}

SearchQueries == { Missing, Given(<<>>), Given(<<"c","s">>) }

TheSecret == <<"s","3","c","r","e","t">>

\* process.env.CLEAR_CACHE_SECRET
Secrets == { Missing, Given(TheSecret) }

Headers == { Missing, Given(TheSecret), Given(<<"g","u","e","s","s">>) }

Methods == {"GET", "POST"}

(***************************************************************************)
(* fetchGVizData: the promise around https.get.  The request is made with  *)
(* the socket timeout SHEET_CONFIG.TIMEOUT; Node emits 'timeout' on the    *)
(* request when the socket has been idle that long and leaves the request  *)
(* open unless a listener destroys it.  The listeners the code installs    *)
(* are 'data' and 'end' on the response and 'error' on the request.        *)
(* The body is a string over "{", "}" and "x" (any other character); a     *)
(* string parses as JSON when it is an object with balanced braces.        *)
(***************************************************************************)
TIMEOUT == 15000

MaxChunks == 2

MaxCalls == 2

\* the chunks the upstream may send
Chunks == { <<"x","{">>, <<"}","x">>, <<"{","}">>, <<"x">>, <<"}">> }

\* buffer.indexOf('{'), 0-based, -1 if absent
RECURSIVE IndexOfBrace(_, _)
IndexOfBrace(buffer, k) ==
    IF k > Len(buffer) THEN -1
    ELSE IF buffer[k] = "{" THEN k - 1
    ELSE IndexOfBrace(buffer, k + 1)

\* buffer.lastIndexOf('}'), 0-based, -1 if absent
RECURSIVE LastIndexOfBrace(_, _)
LastIndexOfBrace(buffer, k) ==
    IF k < 1 THEN -1
    ELSE IF buffer[k] = "}" THEN k - 1
    ELSE LastIndexOfBrace(buffer, k - 1)

\* the nesting depth after the first k characters stays positive up to the
\* last character and ends at 0
RECURSIVE Balanced(_, _, _)
Balanced(s, k, depth) ==
    IF k > Len(s) THEN depth = 0
    ELSE LET d == IF s[k] = "{" THEN depth + 1
                  ELSE IF s[k] = "}" THEN depth - 1 ELSE depth
         IN  /\ d >= 0
             /\ (d = 0 => k = Len(s))
             /\ Balanced(s, k + 1, d)

\* JSON.parse(jsonString) does not throw
ParsesAsJson(s) == Len(s) >= 2 /\ s[1] = "{" /\ Balanced(s, 1, 0)

\* the 'end' listener: how the promise is settled for the buffer received
EndListener(buffer) ==
    LET jsonStart  == IndexOfBrace(buffer, 1)
        jsonEnd    == LastIndexOfBrace(buffer, Len(buffer)) + 1
        jsonString == SubSeq(buffer, jsonStart + 1, jsonEnd)
    IN  IF jsonStart = -1 \/ jsonEnd <= jsonStart
        THEN [promise |-> "rejected", error |-> "Invalid GViz response format", value |-> <<>>]
        ELSE IF ParsesAsJson(jsonString)
        THEN [promise |-> "resolved", error |-> "", value |-> jsonString]
        ELSE [promise |-> "rejected", error |-> "Failed to parse GViz response", value |-> <<>>]

\* no call of fetchGVizData has been made
NoCall ==
    [promise |-> "none", error |-> "", value |-> <<>>, socket |-> "closed",
     buffer |-> <<>>, chunks |-> 0, idle |-> 0, timedOut |-> FALSE, calls |-> 0]

\* the server after the module is loaded
ServerIdle ==
    /\ cache = EmptyCache
    /\ now = 0
    /\ handlers = [i \in 1..MaxInFlight |-> IdleHandler]
    /\ response = NoResponse
    /\ stores = EmptyMap
    /\ upstream = AllOk
    /\ revision = 0
    /\ CLEAR_CACHE_SECRET = Missing
    /\ gviz = NoCall

(***************************************************************************)
(* The StudentTimetable component: the schedule it has loaded and the      *)
(* free-slot search of its schedule tab.  An action is an event handler    *)
(* together with the effects React runs after the render it causes; an     *)
(* effect reads the state of that render, and the state updates of all     *)
(* effects are applied together, the last update of a state winning.       *)
(* null and the empty string are both written <<>> where the code tests    *)
(* them for truthiness only.                                               *)
(***************************************************************************)
\* useState(null)
NullScheduleData ==
    [isNull |-> TRUE, hasWeek |-> FALSE, week |-> <<>>,
     hasDay |-> FALSE, classrooms |-> <<>>, timeSlots |-> <<>>]

\* setScheduleData(prev => ({ ...prev, week }))
MergeWeek(prev, week) == [prev EXCEPT !.isNull = FALSE, !.hasWeek = TRUE, !.week = week]

\* setScheduleData(prev => prev ? { ...prev, ...data } : data)
MergeDay(prev, data) ==
    [prev EXCEPT !.isNull = FALSE, !.hasDay = TRUE,
                 !.classrooms = data.classrooms, !.timeSlots = data.timeSlots]

\* the day payload of the API: the sheet of one room, a class in the first
\* slot and nothing in the second
SampleDay ==
    LET sheet == parseClassroomData(
                     SheetOf("full", 2, <<DataRow(NameA, <<Cell(TxtOrd), NoValueCell>>)>>), 0)
    IN  [classrooms |-> sheet.classrooms, timeSlots |-> sheet.timeSlots]

\* the week mappings of an all-days response: every day failed, or Monday
\* alone succeeded
EmptyWeek == <<>>

MondayWeek == [d \in {"Monday"} |-> SampleDay]

Weeks == {EmptyWeek, MondayWeek}

NoCacheEntry == [present |-> FALSE, week |-> <<>>, classrooms |-> <<>>, timeSlots |-> <<>>]

EmptyCacheRef == [all |-> NoCacheEntry, day |-> NoCacheEntry]

AllTimes == <<"a","l","l">>

parseStartEnd(t) ==
    IF t = <<>> THEN [start |-> <<>>, end |-> <<>>]
    ELSE LET parts == split(t, "-")
         IN  [start |-> trim(parts[1]),
              end   |-> IF Len(parts) >= 2 THEN trim(parts[2]) ELSE <<>>]

\* ts.map(s => s.time).filter(Boolean)
RECURSIVE SlotTimes(_, _)
SlotTimes(ts, k) ==
    IF k > Len(ts) THEN <<>>
    ELSE (IF ts[k].time # <<>> THEN <<ts[k].time>> ELSE <<>>) \o SlotTimes(ts, k + 1)

\* the slots of the first day of the week that has any
RECURSIVE FirstWeekSlots(_, _)
FirstWeekSlots(week, d) ==
    IF d > Len(days) THEN <<>>
    ELSE IF days[d] \in DOMAIN week /\ Len(week[days[d]].timeSlots) > 0
         THEN week[days[d]].timeSlots
         ELSE FirstWeekSlots(week, d + 1)

getAllTimeSlots(data) ==
    IF data.isNull THEN <<>>
    ELSE IF data.hasWeek /\ Len(FirstWeekSlots(data.week, 1)) > 0
         THEN SlotTimes(FirstWeekSlots(data.week, 1), 1)
    ELSE IF data.hasDay /\ Len(data.timeSlots) > 0 THEN SlotTimes(data.timeSlots, 1)
    ELSE <<>>

\* the entries of the time picker
TimePickerOptions(data) ==
    {AllTimes} \cup { getAllTimeSlots(data)[k] : k \in 1..Len(getAllTimeSlots(data)) }

RetryMessage == "Loading schedule data... Please try again in a moment."

NetworkMessage == "Network error"

FailedMessage == "Failed to fetch schedule"

NoError == "null"

\* freeResults: null, the days with free rooms at the chosen slot ("rooms"),
\* the free ranges of a query ("ranges"), the no-matches marker, or an
\* empty mapping
NoFreeResults == [kind |-> "null", days |-> {}]

NoMatches == [kind |-> "noMatches", days |-> {}]

\* timeResults of the slot branch: the days on which some room is free
TimeResults(data, slot) ==
    { days[d] : d \in { i \in 1..Len(days) :
          Len(findFreeRoomsForTimeRange(data, days[i],
                  parseStartEnd(slot).start, parseStartEnd(slot).end)) > 0 } }

\* the readiness test of handleFreeSearch
DataNotReady(data) == data.isNull \/ (~data.hasWeek /\ ~data.hasDay)

\* some day's schedule is held, in the week mapping or as the single day
HoldsSomeDay(data) ==
    /\ ~data.isNull
    /\ \/ data.hasWeek /\ DOMAIN data.week # {}
       \/ data.hasDay

\* what the text branch of handleFreeSearch can set: with no day held
\* findFreeScheduleForQuery returns {} and no slot is occupied by the query,
\* which gives the no-matches marker; with days held the answer is the free
\* ranges, the marker, or the empty mapping
FreeSearchOutcomes(data) ==
    IF HoldsSomeDay(data)
    THEN { [kind |-> "ranges", days |-> {}], NoMatches, [kind |-> "empty", days |-> {}] }
    ELSE { NoMatches }

Blank(q) == trim(q) = <<>>

\* the effect on [freeTimeSlot, activeTab]
TimeSlotEffect(r, acc) ==
    IF r.activeTab # "schedule" THEN acc
    ELSE IF r.freeTimeSlot # AllTimes
         THEN LET timeResults == TimeResults(r.scheduleData, r.freeTimeSlot)
              IN  IF timeResults # {}
                  THEN [acc EXCEPT !.freeResults = [kind |-> "rooms", days |-> timeResults],
                                   !.activeTab = "schedule",
                                   !.freeRequest = @ \cup {"slot"}]
                  ELSE [acc EXCEPT !.freeResults = NoMatches,
                                   !.freeRequest = @ \cup {"slot"}]
         ELSE IF Blank(r.freeQuery) THEN [acc EXCEPT !.freeResults = NoFreeResults]
              ELSE acc

handleFreeSearch(r, acc, outcome) ==
    IF Blank(r.freeQuery) THEN [acc EXCEPT !.freeResults = NoFreeResults]
    ELSE IF DataNotReady(r.scheduleData)
         THEN [acc EXCEPT !.error = RetryMessage, !.freeRequest = @ \cup {"query"}]
    ELSE IF r.freeTimeSlot # AllTimes /\ TimeResults(r.scheduleData, r.freeTimeSlot) # {}
         THEN [acc EXCEPT !.freeResults = [kind |-> "rooms",
                                           days |-> TimeResults(r.scheduleData, r.freeTimeSlot)],
                          !.activeTab = "schedule",
                          !.freeRequest = @ \cup {"query"}]
    ELSE [acc EXCEPT !.freeResults = outcome,
                     !.activeTab = IF outcome.kind = "ranges" THEN "schedule" ELSE @,
                     !.freeRequest = @ \cup {"query"}]

\* the effect on [freeQuery, activeTab]
AutoSearchEffect(r, acc, outcome) ==
    IF r.activeTab = "schedule" /\ ~Blank(r.freeQuery) THEN handleFreeSearch(r, acc, outcome)
    ELSE IF r.activeTab = "schedule" THEN [acc EXCEPT !.freeResults = NoFreeResults]
    ELSE acc

\* fetchDaySchedule up to its first await: a cached schedule is merged into
\* scheduleData, otherwise the request is sent; both clear the error
fetchDaySchedule(acc, dayId) ==
    IF dayId = "all"
    THEN IF acc.cacheRef.all.present
         THEN [acc EXCEPT !.scheduleData = MergeWeek(@, acc.cacheRef.all.week),
                          !.error = NoError]
         ELSE [acc EXCEPT !.inFlight = @ \cup {"all"}, !.error = NoError]
    ELSE IF acc.cacheRef.day.present
         THEN [acc EXCEPT !.scheduleData = MergeDay(@, acc.cacheRef.day),
                          !.error = NoError]
         ELSE [acc EXCEPT !.inFlight = @ \cup {"day"}, !.error = NoError]

\* the effect on [activeTab, selectedDay]
FetchEffect(r, acc) ==
    IF r.activeTab = "schedule"
    THEN fetchDaySchedule(fetchDaySchedule(acc, "all"), "day")
    ELSE acc

\* the state a render closes over
Render ==
    [scheduleData |-> scheduleData, cacheRef |-> cacheRef, inFlight |-> inFlight,
     activeTab |-> activeTab, freeQuery |-> freeQuery, freeTimeSlot |-> freeTimeSlot,
     freeResults |-> freeResults, error |-> error, freeRequest |-> {}]

CommitState(acc) ==
    /\ scheduleData' = acc.scheduleData
    /\ cacheRef' = acc.cacheRef
    /\ inFlight' = acc.inFlight
    /\ activeTab' = acc.activeTab
    /\ freeQuery' = acc.freeQuery
    /\ freeTimeSlot' = acc.freeTimeSlot
    /\ freeResults' = acc.freeResults
    /\ error' = acc.error
    /\ freeRequest' = acc.freeRequest
    /\ classSearch' = classSearch

\* a render of the component that leaves the rest of the page alone
Commit(acc) == CommitState(acc) /\ UNCHANGED pageVars

\* the class search of the component: the search box, the debounce timer of
\* the effect on [searchQuery], performSearch with its AbortControllers, and
\* cacheRef.current.search with lastSearchQuery.  A controller slot holds a
\* request that has been sent and not yet answered
MaxSearches == 2

SearchTexts == { <<>>, <<" ">>, <<"o","s">>, <<"a","i">> }

NoTimer == [set |-> FALSE, query |-> <<>>]

\* useState(null)
NullResults == [isNull |-> TRUE, query |-> <<>>]

\* the body of a successful search response: it names the query it answers
DataOf(q) == [isNull |-> FALSE, query |-> q]

NoFilterDay == [isNull |-> TRUE, n |-> 0]

NoController == [inFlight |-> FALSE, query |-> <<>>, aborted |-> FALSE, filterDay |-> 0]

\* the last response that set searchResults and the query that was the most
\* recently issued one at that moment (history)
NotApplied == [set |-> FALSE, query |-> <<>>, latest |-> <<>>]

SearchFailedMessage == "Search failed"

computeDefaultDay(today) == IF today = 0 \/ today = 6 THEN 0 ELSE today - 1

\* filterDay of performSearch, for selectedDay as computed at mount
FilterDay(selectedDay, today) == IF today = 0 \/ today = 6 THEN 0 ELSE selectedDay

SearchIdle ==
    [searchQuery |-> <<>>, timer |-> NoTimer, searchResults |-> NullResults,
     loading |-> FALSE, searchFilterDay |-> NoFilterDay,
     search |-> {}, lastSearchQuery |-> <<>>,
     searchAbortRef |-> 0, controllers |-> [i \in 1..MaxSearches |-> NoController],
     issued |-> <<>>, applied |-> NotApplied]

\* the way performSearch takes: the early return on a blank query, the answer
\* from the client cache, or a request
SearchPath(cs, q) ==
    IF trim(q) = <<>> THEN "blank"
    ELSE IF cs.lastSearchQuery = q /\ q \in cs.search THEN "cached"
    ELSE "fetch"

FreeController(cs) ==
    CHOOSE i \in 1..MaxSearches :
        /\ ~cs.controllers[i].inFlight
        /\ \A j \in 1..(i - 1) : cs.controllers[j].inFlight

\* performSearch up to its await: only the request path aborts the controller
\* in searchAbortRef
performSearch(cs, q, today) ==
    IF SearchPath(cs, q) = "blank" THEN [cs EXCEPT !.searchResults = NullResults]
    ELSE IF SearchPath(cs, q) = "cached"
    THEN [cs EXCEPT !.searchResults = DataOf(q), !.issued = q]
    ELSE LET id      == FreeController(cs)
             aborted == [i \in 1..MaxSearches |->
                            IF i = cs.searchAbortRef
                            THEN [cs.controllers[i] EXCEPT !.aborted = TRUE]
                            ELSE cs.controllers[i]]
         IN  [cs EXCEPT !.controllers =
                            [aborted EXCEPT ![id] =
                                [inFlight |-> TRUE, query |-> q, aborted |-> FALSE,
                                 filterDay |-> FilterDay(computeDefaultDay(today), today)]],
                        !.searchAbortRef = id,
                        !.loading = TRUE,
                        !.issued = q]

(***************************************************************************)
(* The free class/lab finder of the component: the free ranges of a day.   *)
(***************************************************************************)
toUpperCase(s) ==
    [k \in 1..Len(s) |->
        IF IsLower(s[k]) THEN Uppers[CHOOSE u \in DOMAIN Lowers : Lowers[u] = s[k]]
        ELSE s[k]]

IsLetter(ch) == IsUpper(ch) \/ IsLower(ch)

\* /^[A-Za-z]{1,3}-?\d{1,4}$/.test(s)
roomIdPattern(s) ==
    \E nL \in 1..3 : \E nH \in 0..1 : \E nD \in 1..4 :
        /\ Len(s) = nL + nH + nD
        /\ \A k \in 1..nL : IsLetter(s[k])
        /\ nH = 1 => s[nL + 1] = "-"
        /\ \A k \in (nL + nH + 1)..Len(s) : IsDigit(s[k])

\* name.match(/[A-Za-z]{1,3}-?\d{1,4}/i): the leftmost match, each quantifier
\* greedy; <<>> when there is none
RoomIdMatch(name) ==
    LET tries == {t \in (1..Len(name)) \X (1..3) \X (0..1) \X (1..4) :
                     /\ t[1] + t[2] + t[3] + t[4] - 1 <= Len(name)
                     /\ roomIdPattern(SubSeq(name, t[1], t[1] + t[2] + t[3] + t[4] - 1))
                     /\ \A k \in t[1]..(t[1] + t[2] - 1) : IsLetter(name[k])
                     /\ t[3] = 1 => name[t[1] + t[2]] = "-"
                     /\ \A k \in (t[1] + t[2] + t[3])..(t[1] + t[2] + t[3] + t[4] - 1) :
                            IsDigit(name[k])}
        Rank(t) == (3 - t[2]) * 8 + (1 - t[3]) * 4 + (4 - t[4])
    IN  IF tries = {} THEN <<>>
        ELSE LET best == CHOOSE t \in tries : \A u \in tries :
                             \/ t[1] < u[1]
                             \/ t[1] = u[1] /\ Rank(t) <= Rank(u)
             IN  SubSeq(name, best[1], best[1] + best[2] + best[3] + best[4] - 1)

\* s.replace(/\s+/g, ' ')
RECURSIVE CollapseSpaces(_)
CollapseSpaces(s) ==
    IF Len(s) = 0 THEN <<>>
    ELSE IF Len(s) >= 2 /\ IsSpace(s[1]) /\ IsSpace(s[2]) THEN CollapseSpaces(Tail(s))
    ELSE <<s[1]>> \o CollapseSpaces(Tail(s))

HeaderWords ==
    { <<"c","l","a","s","s","r","o","o","m">>, <<"c","l","a","s","s","r","o","o","m","s">>,
      <<"r","o","o","m">>, <<"r","o","o","m","s">>,
      <<"c","l","a","s","s"," ","l","i","s","t">>, <<"r","o","o","m"," ","l","i","s","t">>,
      <<"l","a","b","o","r","a","t","o","r","i","e","s">>,
      <<"l","a","b">>, <<"l","a","b","s">> }

isPlaceholderName(name) ==
    IF name = <<>> THEN TRUE
    ELSE LET rn == CollapseSpaces(trim(name))
         IN  \/ \E w \in HeaderWords :
                    /\ Len(rn) >= Len(w)
                    /\ toLowerCase(SubSeq(rn, 1, Len(w))) = w
                    /\ WordBoundary(rn, Len(w))
             \/ /\ \A k \in 1..Len(rn) : ~IsDigit(rn[k])
                /\ Len(rn) > 4
                /\ rn = toUpperCase(rn)

AcademicBlock == <<"a","c","a","d","e","m","i","c"," ","b","l","o","c","k"," ">>

\* name.match(/Academic Block ([IVX]+|[0-9]+)/i): the captured group, '?' if none
extractBlockFromName(name) ==
    LET low   == toLowerCase(name)
        Run(p, In(_)) == {n \in 1..(Len(name) - p + 1) : \A k \in p..(p + n - 1) : In(name[k])}
        Roman(ch) == toLowerCase(<<ch>>)[1] \in {"i", "v", "x"}
        hits  == {p \in 1..Len(name) :
                     /\ p > Len(AcademicBlock)
                     /\ SubSeq(low, p - Len(AcademicBlock), p - 1) = AcademicBlock
                     /\ (Run(p, Roman) # {} \/ Run(p, IsDigit) # {})}
    IN  IF hits = {} THEN <<"?">>
        ELSE LET p   == CHOOSE h \in hits : \A o \in hits : h <= o
                 run == IF Run(p, Roman) # {} THEN Run(p, Roman) ELSE Run(p, IsDigit)
                 n   == CHOOSE m \in run : \A o \in run : m >= o
             IN  SubSeq(name, p, p + n - 1)

\* schedule.find(it => it.timeIndex === slotIndex): its position, 0 if none
FindEntry(schedule, slotIndex) ==
    LET hits == {m \in 1..Len(schedule) : schedule[m].timeIndex = slotIndex}
    IN  IF hits = {} THEN 0 ELSE CHOOSE m \in hits : \A o \in hits : m <= o

\* !!(s && s.class && String(s.class).trim() !== '')
RoomOccupiedAt(room, slotIdx) ==
    LET m == FindEntry(room.schedule, slotIdx)
    IN  m # 0 /\ trim(room.schedule[m].class) # <<>>

isSlotOccupiedByQuery(classrooms, slotIndex, freeText) ==
    IF freeText = <<>> THEN FALSE
    ELSE LET q == trim(toLowerCase(freeText))
         IN  \E k \in 1..Len(classrooms) :
                 LET room == classrooms[k]
                     m    == FindEntry(room.schedule, slotIndex)
                     text == toLowerCase(room.schedule[m].class)
                     code == toLowerCase(room.schedule[m].code)
                 IN  /\ m # 0
                     /\ IF includes(toLowerCase(room.name), q)
                        THEN text # <<>> /\ trim(text) # <<>>
                        ELSE text # <<>> /\ (includes(text, q) \/ code = q \/ includes(code, q))

\* timeSlots.slice().sort((a, b) => a.index - b.index): a stable sort
RECURSIVE SortByIndex(_)
SortByIndex(timeSlots) ==
    IF Len(timeSlots) = 0 THEN <<>>
    ELSE LET first == CHOOSE k \in 1..Len(timeSlots) :
                          \A m \in 1..Len(timeSlots) :
                              \/ timeSlots[k].index < timeSlots[m].index
                              \/ timeSlots[k].index = timeSlots[m].index /\ k <= m
         IN  <<timeSlots[first]>> \o
             SortByIndex([m \in 1..(Len(timeSlots) - 1) |->
                             IF m < first THEN timeSlots[m] ELSE timeSlots[m + 1]])

NoCurrent == [open |-> FALSE, startIndex |-> 0, endIndex |-> 0, startTime |-> <<>>, endTime |-> <<>>]

\* freeFlags.forEach of the merge, then if (current) ranges.push(current)
RECURSIVE MergeFlags(_, _, _)
MergeFlags(freeFlags, k, current) ==
    IF k > Len(freeFlags)
    THEN IF current.open THEN <<current>> ELSE <<>>
    ELSE LET f == freeFlags[k]
         IN  IF f.free
             THEN MergeFlags(freeFlags, k + 1,
                      IF ~current.open
                      THEN [open |-> TRUE, startIndex |-> f.index, endIndex |-> f.index,
                            startTime |-> f.time, endTime |-> f.time]
                      ELSE [current EXCEPT !.endIndex = f.index, !.endTime = f.time])
             ELSE (IF current.open THEN <<current>> ELSE <<>>)
                  \o MergeFlags(freeFlags, k + 1, NoCurrent)

\* (r.startTime || '').split('-')[0].trim()
RangeStart(r) == trim(split(r.startTime, "-")[1])

\* endPart || r.endTime
RangeEnd(r) ==
    LET parts == split(r.endTime, "-")
        endPart == IF Len(parts) >= 2 /\ parts[2] # <<>> THEN trim(parts[2]) ELSE r.endTime
    IN  IF endPart # <<>> THEN endPart ELSE r.endTime

RoomInfo(room) ==
    [name     |-> room.name,
     capacity |-> "?",
     block    |-> extractBlockFromName(room.name),
     floor    |-> "?"]

\* the loop over slotIdx and, inside it, classrooms.forEach: a room is pushed
\* at the first slot index where it is not occupied
RECURSIVE CollectRooms(_, _, _, _, _)
CollectRooms(classrooms, slotIdx, endIndex, k, availableRooms) ==
    IF slotIdx > endIndex THEN availableRooms
    ELSE IF k > Len(classrooms) THEN CollectRooms(classrooms, slotIdx + 1, endIndex, 1, availableRooms)
    ELSE LET room == classrooms[k]
             push == /\ room.name # <<>>
                     /\ ~isPlaceholderName(trim(room.name))
                     /\ ~RoomOccupiedAt(room, slotIdx)
                     /\ \A a \in 1..Len(availableRooms) : availableRooms[a].name # room.name
         IN  CollectRooms(classrooms, slotIdx, endIndex, k + 1,
                 IF push THEN Append(availableRooms, RoomInfo(room)) ELSE availableRooms)

\* array.slice(0, n)
Slice(s, n) == SubSeq(s, 1, IF Len(s) < n THEN Len(s) ELSE n)

FreeFlags(timeSlots, Occupied(_)) ==
    [k \in 1..Len(timeSlots) |->
        [index |-> timeSlots[k].index, time |-> timeSlots[k].time,
         free  |-> ~Occupied(timeSlots[k].index)]]

\* each range keeps the startIndex and endIndex of the merged range r it was
\* mapped from
computeFreeRangesForDay(dayData, freeText) ==
    LET timeSlots  == SortByIndex(dayData.timeSlots)
        classrooms == dayData.classrooms
        Occ(i)     == isSlotOccupiedByQuery(classrooms, i, freeText)
        ranges     == MergeFlags(FreeFlags(timeSlots, Occ), 1, NoCurrent)
    IN  [n \in 1..Len(ranges) |->
            [startIndex     |-> ranges[n].startIndex,
             endIndex       |-> ranges[n].endIndex,
             start          |-> RangeStart(ranges[n]),
             end            |-> RangeEnd(ranges[n]),
             availableRooms |-> Slice(CollectRooms(classrooms, ranges[n].startIndex,
                                                   ranges[n].endIndex, 1, <<>>), 5)]]

\* classrooms.find of computeFreeRangesForRoom: the position of the target
\* room, 0 if there is none
TargetRoom(classrooms, roomQuery) ==
    LET q    == trim(toLowerCase(roomQuery))
        hits == IF roomIdPattern(trim(roomQuery))
                THEN {k \in 1..Len(classrooms) :
                         /\ classrooms[k].name # <<>>
                         /\ RoomIdMatch(classrooms[k].name) # <<>>
                         /\ toLowerCase(RoomIdMatch(classrooms[k].name)) = toLowerCase(trim(roomQuery))}
                ELSE {k \in 1..Len(classrooms) : includes(toLowerCase(classrooms[k].name), q)}
    IN  IF hits = {} THEN 0 ELSE CHOOSE k \in hits : \A o \in hits : k <= o

computeFreeRangesForRoom(dayData, roomQuery) ==
    LET timeSlots  == SortByIndex(dayData.timeSlots)
        classrooms == dayData.classrooms
        target     == TargetRoom(classrooms, roomQuery)
        Occ(i)     == RoomOccupiedAt(classrooms[target], i)
        ranges     == MergeFlags(FreeFlags(timeSlots, Occ), 1, NoCurrent)
    IN  IF target = 0 THEN <<>>
        ELSE [n \in 1..Len(ranges) |->
                 [startIndex     |-> ranges[n].startIndex,
                  endIndex       |-> ranges[n].endIndex,
                  start          |-> RangeStart(ranges[n]),
                  end            |-> RangeEnd(ranges[n]),
                  availableRooms |-> <<RoomInfo(classrooms[target])>>]]

\* RoomMode decided by the pattern alone
RoomMode_PatternOnly(data, freeText) == roomIdPattern(trim(freeText))

\* let roomMode of findFreeScheduleForQuery
RoomMode(data, freeText) ==
    LET qLower == trim(toLowerCase(freeText))
        Named(classrooms) == \E k \in 1..Len(classrooms) :
                                 /\ classrooms[k].name # <<>>
                                 /\ includes(toLowerCase(classrooms[k].name), qLower)
    IN  IF roomIdPattern(trim(freeText)) THEN TRUE
        ELSE IF data.hasWeek THEN \E d \in DOMAIN data.week : Named(data.week[d].classrooms)
        ELSE IF data.hasDay THEN Named(data.classrooms)
        ELSE FALSE

\* findFreeScheduleForQuery(query, 'all') over scheduleData = data, with
\* dayName the name of the selected day: the mapping out, from the days that
\* have a range to their ranges
findFreeScheduleForQuery(data, dayName, freeText) ==
    IF data.isNull \/ freeText = <<>> \/ trim(freeText) = <<>> THEN <<>>
    ELSE LET roomMode == RoomMode(data, freeText)
             Ranges(dayData) == IF roomMode THEN computeFreeRangesForRoom(dayData, freeText)
                                ELSE computeFreeRangesForDay(dayData, freeText)
         IN  IF data.hasWeek /\ DOMAIN data.week # {}
             THEN LET with == {d \in DOMAIN data.week : Len(Ranges(data.week[d])) > 0}
                  IN  [d \in with |-> Ranges(data.week[d])]
             ELSE IF data.hasDay
             THEN LET ranges == Ranges([classrooms |-> data.classrooms,
                                        timeSlots  |-> data.timeSlots])
                  IN  IF Len(ranges) > 0 THEN [d \in {dayName} |-> ranges] ELSE <<>>
             ELSE <<>>

NoFreeCall ==
    [called |-> FALSE, data |-> NullScheduleData, query |-> <<>>, roomMode |-> FALSE, out |-> <<>>]

NoPoll == [pollMs |-> 0, sheet |-> 0, ticks |-> 0, ticked |-> FALSE, requested |-> {}]

NoApiParse == [called |-> FALSE, result |-> EmptyResult]

ClientIdle ==
    /\ scheduleData = NullScheduleData
    /\ cacheRef = EmptyCacheRef
    /\ inFlight = {}
    /\ activeTab = "search"
    /\ freeQuery = <<>>
    /\ freeTimeSlot = AllTimes
    /\ freeResults = NoFreeResults
    /\ error = NoError
    /\ freeRequest = {}
    /\ classSearch = SearchIdle
    /\ freeCall = NoFreeCall
    /\ savedClasses = <<>>
    /\ poll = NoPoll
    /\ apiParsed = NoApiParse

\* the parser pipeline at rest
CoreIdle ==
    /\ pc = "client"
    /\ LAB_LOOKAHEAD = 0
    /\ gvizData = Grid(<<>>)
    /\ parsed = EmptyResult
    /\ cursor = <<>>
    /\ query = <<>>
    /\ searchResults = NoSearch
    /\ finderRange = NoRange
    /\ finderResults = <<>>
    /\ clock = NoClock
    /\ timeStr = <<>>
    /\ minutes = NoMinutes

FreeQueries == { <<>>, <<" ">>, <<"O","S">>, <<"E","-","3","1">> }

InitFree == CoreIdle /\ ClientIdle /\ ServerIdle

\* a click on a tab button
SetActiveTab ==
    \E tab \in {"search", "schedule", "saved"} :
        /\ tab # activeTab
        /\ \E outcome \in FreeSearchOutcomes(scheduleData) :
               LET r == [Render EXCEPT !.activeTab = tab]
               IN  Commit(AutoSearchEffect(r, FetchEffect(r, TimeSlotEffect(r, r)), outcome))
        /\ UNCHANGED <<coreVars, serverVars>>

\* typing in the free-slot search box
SetFreeQuery ==
    /\ activeTab = "schedule"
    /\ \E q \in FreeQueries :
           /\ q # freeQuery
           /\ \E outcome \in FreeSearchOutcomes(scheduleData) :
                  LET r == [Render EXCEPT !.freeQuery = q]
                  IN  Commit(AutoSearchEffect(r, r, outcome))
    /\ UNCHANGED <<coreVars, serverVars>>

\* a click on an entry of the time picker
SetFreeTimeSlot ==
    /\ activeTab = "schedule"
    /\ \E t \in TimePickerOptions(scheduleData) :
           /\ t # freeTimeSlot
           /\ LET r == [Render EXCEPT !.freeTimeSlot = t]
              IN  Commit(TimeSlotEffect(r, r))
    /\ UNCHANGED <<coreVars, serverVars>>

\* the answer to fetch&day=all arrives: the week of the days that succeeded,
\* or the request fails
WeekArrives ==
    /\ "all" \in inFlight
    /\ \/ \E week \in Weeks :
              Commit([Render EXCEPT
                         !.inFlight = @ \ {"all"},
                         !.cacheRef.all = [NoCacheEntry EXCEPT !.present = TRUE, !.week = week],
                         !.scheduleData = MergeWeek(@, week)])
       \/ Commit([Render EXCEPT !.inFlight = @ \ {"all"}, !.error = NetworkMessage])
    /\ UNCHANGED <<coreVars, serverVars>>

\* the answer to fetch&day=<selectedDay> arrives
DayArrives ==
    /\ "day" \in inFlight
    /\ \/ Commit([Render EXCEPT
                     !.inFlight = @ \ {"day"},
                     !.cacheRef.day = [NoCacheEntry EXCEPT !.present = TRUE,
                                           !.classrooms = SampleDay.classrooms,
                                           !.timeSlots = SampleDay.timeSlots],
                     !.scheduleData = MergeDay(@, SampleDay)])
       \/ Commit([Render EXCEPT !.inFlight = @ \ {"day"}, !.error = FailedMessage])
    /\ UNCHANGED <<coreVars, serverVars>>

NextFree == SetActiveTab \/ SetFreeQuery \/ SetFreeTimeSlot \/ WeekArrives \/ DayArrives

SpecFree == InitFree /\ [][NextFree]_vars

(***************************************************************************)
(* The schedule tab under client polling, in front of a sheet that is      *)
(* edited.                                                                 *)
(***************************************************************************)
\* the day the API returns at revision rev of the sheet
SheetDay(rev) ==
    LET sheet == parseClassroomData(
                     SheetOf("full", 2, <<DataRow(NameA, <<Cell(IF rev = 0 THEN TxtOrd ELSE TxtCollab),
                                                           NoValueCell>>)>>), 0)
    IN  [classrooms |-> sheet.classrooms, timeSlots |-> sheet.timeSlots]

SheetWeek(rev) == [d \in {"Monday"} |-> SheetDay(rev)]

\* Number(process.env.NEXT_PUBLIC_SHEET_CLIENT_POLL_MS) || 0 is 0 or 5000
InitPoll ==
    /\ CoreIdle
    /\ ServerIdle
    /\ scheduleData = NullScheduleData
    /\ cacheRef = EmptyCacheRef
    /\ inFlight = {}
    /\ activeTab = "search"
    /\ freeQuery = <<>>
    /\ freeTimeSlot = AllTimes
    /\ freeResults = NoFreeResults
    /\ error = NoError
    /\ freeRequest = {}
    /\ classSearch = SearchIdle
    /\ freeCall = NoFreeCall
    /\ savedClasses = <<>>
    /\ apiParsed = NoApiParse
    /\ poll \in {[NoPoll EXCEPT !.pollMs = ms] : ms \in {0, 5000}}

\* the callback of setInterval: fetchDaySchedule('all'); fetchDaySchedule(selectedDay)
PollTick ==
    /\ activeTab = "schedule"
    /\ poll.pollMs > 0
    /\ poll.ticks < MaxTicks
    /\ LET acc == fetchDaySchedule(fetchDaySchedule([Render EXCEPT !.inFlight = {}], "all"), "day")
       IN  /\ CommitState([acc EXCEPT !.inFlight = @ \cup inFlight])
           /\ poll' = [poll EXCEPT !.ticks = @ + 1, !.ticked = TRUE, !.requested = acc.inFlight]
    /\ UNCHANGED <<freeCall, savedClasses, apiParsed>>
    /\ UNCHANGED <<coreVars, serverVars>>

\* an editor changes the sheet
SheetEdit ==
    /\ poll.sheet < MaxEdits
    /\ poll' = [poll EXCEPT !.sheet = @ + 1, !.ticked = FALSE, !.requested = {}]
    /\ UNCHANGED <<scheduleData, cacheRef, inFlight, activeTab, freeQuery, freeTimeSlot,
                   freeResults, error, freeRequest, classSearch, freeCall, savedClasses,
                   apiParsed>>
    /\ UNCHANGED <<coreVars, serverVars>>

\* the answer to a request of fetchDaySchedule arrives, with the sheet as it is
\* now or with a failure
PollAnswer ==
    /\ \E dayId \in inFlight :
           \/ /\ dayId = "all"
              /\ Commit([Render EXCEPT
                            !.inFlight = @ \ {"all"},
                            !.cacheRef.all = [NoCacheEntry EXCEPT !.present = TRUE,
                                                  !.week = SheetWeek(poll.sheet)],
                            !.scheduleData = MergeWeek(@, SheetWeek(poll.sheet))])
           \/ /\ dayId = "day"
              /\ Commit([Render EXCEPT
                            !.inFlight = @ \ {"day"},
                            !.cacheRef.day = [NoCacheEntry EXCEPT !.present = TRUE,
                                                  !.classrooms = SheetDay(poll.sheet).classrooms,
                                                  !.timeSlots = SheetDay(poll.sheet).timeSlots],
                            !.scheduleData = MergeDay(@, SheetDay(poll.sheet))])
           \/ Commit([Render EXCEPT !.inFlight = @ \ {dayId},
                                    !.error = IF dayId = "all" THEN NetworkMessage
                                              ELSE FailedMessage])
    /\ UNCHANGED <<coreVars, serverVars>>

NextPoll == SetActiveTab \/ PollTick \/ SheetEdit \/ PollAnswer

SpecPoll == InitPoll /\ [][NextPoll]_vars

(***************************************************************************)
(* The saved list of the component.                                        *)
(***************************************************************************)
MaxSaved == 4

MondayText == <<"M","o","n","d","a","y">>

\* a::b::c::d of a template literal
JoinId(a, b, c, d) == a \o <<":",":">> \o b \o <<":",":">> \o c \o <<":",":">> \o d

\* the class instances on the page: one class held in two rooms at the same
\* time, and a text without a class code
ClassInstances ==
    << [day |-> MondayText, classroom |-> NameA, time |-> SlotLabel(1),
        code |-> extractClassCode(TxtOrd), class |-> TxtOrd],
       [day |-> MondayText, classroom |-> trim(NameB), time |-> SlotLabel(1),
        code |-> extractClassCode(TxtOrd), class |-> TxtOrd],
       [day |-> MondayText, classroom |-> NameA, time |-> SlotLabel(2),
        code |-> extractClassCode(TxtPipe), class |-> TxtPipe] >>

SavedEntry(id, item, code) ==
    [hasId |-> TRUE, id |-> id, code |-> code, day |-> item.day, time |-> item.time,
     classroom |-> item.classroom]

\* an entry pushed without an id
BareEntry(item) ==
    [hasId |-> FALSE, id |-> <<>>, code |-> item.code, day |-> item.day, time |-> item.time,
     classroom |-> item.classroom]

HasId(saved, id) == \E m \in 1..Len(saved) : saved[m].hasId /\ saved[m].id = id

addSavedClass(saved, item) ==
    LET id == JoinId(item.code, item.day, item.time, item.classroom)
    IN  IF HasId(saved, id) THEN saved
        ELSE <<SavedEntry(id, item, item.code)>> \o saved

\* classStr.match(/[A-Z]{2,}\-?\d+[A-Z]?\d*/): the leftmost match, each
\* quantifier greedy; <<>> when there is none
BadgeMatch(s) ==
    LET n     == Len(s)
        Fits(t) ==
            LET a == t[1] b == t[1] + t[2] c == b + t[3] d == c + t[4] f == d + t[5]
            IN  /\ f + t[6] - 1 <= n
                /\ \A k \in a..(b - 1) : IsUpper(s[k])
                /\ t[3] = 1 => s[b] = "-"
                /\ \A k \in c..(d - 1) : IsDigit(s[k])
                /\ t[5] = 1 => IsUpper(s[d])
                /\ \A k \in f..(f + t[6] - 1) : IsDigit(s[k])
        tries == {t \in (1..n) \X (2..n) \X (0..1) \X (1..n) \X (0..1) \X (0..n) : Fits(t)}
        Before(t, u) ==
            \E p \in 1..6 :
                /\ \A o \in 1..(p - 1) : t[o] = u[o]
                /\ IF p = 1 THEN t[p] < u[p] ELSE t[p] > u[p]
    IN  IF tries = {} THEN <<>>
        ELSE LET best == CHOOSE t \in tries : \A u \in tries : t = u \/ Before(t, u)
             IN  SubSeq(s, best[1], best[1] + best[2] + best[3] + best[4] + best[5] + best[6] - 1)

BadgeText(classItem) ==
    IF classItem.code # <<>> THEN classItem.code
    ELSE IF classItem.class # <<>>
    THEN IF BadgeMatch(classItem.class) # <<>> THEN BadgeMatch(classItem.class)
         ELSE split(classItem.class, "\n")[1]
    ELSE <<"F","r","e","e">>

\* Object.entries(results).forEach of saveAllCurrentSearchResults over the
\* classes of the search results, in order
RECURSIVE saveAllCurrentSearchResults(_, _, _)
saveAllCurrentSearchResults(newSaved, classes, k) ==
    IF k > Len(classes) THEN newSaved
    ELSE LET classItem == classes[k]
             badgeText == BadgeText(classItem)
             id        == JoinId(classItem.day, classItem.classroom, classItem.time, badgeText)
         IN  saveAllCurrentSearchResults(
                 IF HasId(newSaved, id) THEN newSaved
                 ELSE Append(newSaved, SavedEntry(id, classItem, badgeText)),
                 classes, k + 1)

\* the instances of watchCode in the week, as the Set of JSON strings holds
\* them: in order of discovery, each once
RECURSIVE WatchedInstances(_, _, _)
WatchedInstances(watchCode, k, found) ==
    IF k > Len(ClassInstances) THEN found
    ELSE LET s == ClassInstances[k]
         IN  WatchedInstances(watchCode, k + 1,
                 IF /\ s.code # <<>>
                    /\ toUpperCase(s.code) = watchCode
                    /\ \A m \in 1..Len(found) : found[m] # s
                 THEN Append(found, s) ELSE found)

\* instances.forEach: push the instance unless an entry of the same code,
\* day and time is saved
RECURSIVE AddInstances(_, _, _)
AddInstances(newSaved, instances, k) ==
    IF k > Len(instances) THEN newSaved
    ELSE LET inst == instances[k]
         IN  AddInstances(
                 IF \E m \in 1..Len(newSaved) :
                        /\ newSaved[m].code = inst.code
                        /\ newSaved[m].day = inst.day
                        /\ newSaved[m].time = inst.time
                 THEN newSaved
                 ELSE Append(newSaved, BareEntry(inst)),
                 instances, k + 1)

\* syncWatchedClasses over a loaded week that holds ClassInstances
RECURSIVE syncWatchedClasses(_, _, _)
syncWatchedClasses(newSaved, watchedClasses, k) ==
    IF k > Len(watchedClasses) THEN newSaved
    ELSE syncWatchedClasses(
             AddInstances(newSaved, WatchedInstances(watchedClasses[k], 1, <<>>), 1),
             watchedClasses, k + 1)

\* savedClasses.filter(s => s.id !== id); the id of an entry without one is
\* undefined
removeSavedClass(saved, hasId, id) ==
    SelectSeq(saved, LAMBDA s : ~(s.hasId = hasId /\ s.id = id))

\* the subsequences of the class instances a search can return
SearchedInstances ==
    { SelectSeq(ClassInstances, LAMBDA s : s \in keep) :
        keep \in SUBSET {ClassInstances[k] : k \in 1..Len(ClassInstances)} } \ {<<>>}

InitSaved == CoreIdle /\ ClientIdle /\ ServerIdle

KeepsPage ==
    /\ UNCHANGED <<scheduleData, cacheRef, inFlight, activeTab, freeQuery, freeTimeSlot,
                   freeResults, error, freeRequest, classSearch, freeCall, poll, apiParsed>>
    /\ UNCHANGED <<coreVars, serverVars>>

\* a click on Save of a class card
AddSavedClass ==
    /\ \E k \in 1..Len(ClassInstances) :
           /\ Len(addSavedClass(savedClasses, ClassInstances[k])) <= MaxSaved
           /\ savedClasses' = addSavedClass(savedClasses, ClassInstances[k])
    /\ KeepsPage

\* a click on Save all of the search results
SaveAll ==
    /\ \E classes \in SearchedInstances :
           /\ Len(saveAllCurrentSearchResults(savedClasses, classes, 1)) <= MaxSaved
           /\ savedClasses' = saveAllCurrentSearchResults(savedClasses, classes, 1)
    /\ KeepsPage

\* the effect on [scheduleData, watchedClasses], with the class code watched
SyncWatched ==
    /\ \E watched \in {<<toUpperCase(extractClassCode(TxtOrd))>>} :
           /\ Len(syncWatchedClasses(savedClasses, watched, 1)) <= MaxSaved
           /\ savedClasses' = syncWatchedClasses(savedClasses, watched, 1)
    /\ KeepsPage

\* a click on Remove of a saved entry
RemoveSavedClass ==
    /\ \E m \in 1..Len(savedClasses) :
           savedClasses' = removeSavedClass(savedClasses, savedClasses[m].hasId, savedClasses[m].id)
    /\ KeepsPage

NextSaved == AddSavedClass \/ SaveAll \/ SyncWatched \/ RemoveSavedClass

SpecSaved == InitSaved /\ [][NextSaved]_vars

(***************************************************************************)
(* The requests of the schedule API, the clock and the sheet.              *)
(***************************************************************************)
\* the server after the module is loaded, behind the given sheets
InitApi(sheets, secrets) ==
    /\ CoreIdle
    /\ ClientIdle
    /\ cache = EmptyCache
    /\ now = 0
    /\ handlers = [i \in 1..MaxInFlight |-> IdleHandler]
    /\ response = NoResponse
    /\ stores = EmptyMap
    /\ upstream \in sheets
    /\ revision = 0
    /\ CLEAR_CACHE_SECRET \in secrets
    /\ gviz = NoCall

\* the handler slot a new request runs in: the first that is free
FreeSlot(i) == handlers[i].pc = "idle" /\ \A j \in 1..(i - 1) : handlers[j].pc # "idle"

\* what the handler notes of the store log when it looks into the cache
Looked(h, kind, key) ==
    [h EXCEPT !.recent = Recent(stores, now, kind, key),
              !.recentKept = RecentKept(stores, now, kind, key),
              !.recentValue = RecentValue(stores, now, kind, key)]

Answer(h, kind, status, success, cached, body) ==
    [NoResponse EXCEPT !.kind = kind, !.status = status, !.success = success,
                       !.cached = cached, !.body = body,
                       !.day = h.day, !.query = Given(h.query), !.cacheKey = h.cacheKey,
                       !.succeeded = h.succeeded,
                       !.recent = h.recent, !.recentKept = h.recentKept,
                       !.recentValue = h.recentValue]

\* GET /api/schedule?action=fetch&day=...: up to the response from the cache
\* or the first await
FetchRequest ==
    /\ \E i \in 1..MaxInFlight : \E rawDay \in FetchDays : \E getDay \in GetDays :
           /\ FreeSlot(i)
           /\ LET dayParam == normalizeDayParam(rawDay, getDay)
                  cacheKey == getCacheKey("fetch", [day |-> dayParam])
                  kind     == IF dayParam = AllDays THEN "week" ELSE "schedule"
                  h        == Looked([IdleHandler EXCEPT !.day = dayParam,
                                                         !.cacheKey = cacheKey], kind, cacheKey)
              IN  IF dayParam = UndefinedDay
                  THEN /\ response' = [NoResponse EXCEPT !.kind = "invalid", !.status = 400]
                       /\ UNCHANGED handlers
                  ELSE IF isValid(cache, now, kind, cacheKey)
                  THEN /\ response' =
                              Answer(h, kind, 200,
                                     IF kind = "week" THEN TRUE
                                     ELSE get(cache, kind, cacheKey).success,
                                     TRUE, get(cache, kind, cacheKey))
                       /\ UNCHANGED handlers
                  ELSE /\ handlers' = [handlers EXCEPT
                                          ![i] = [h EXCEPT !.pc = IF kind = "week" THEN "week"
                                                                  ELSE "day"]]
                       /\ UNCHANGED response
    /\ UNCHANGED <<cache, now, stores, upstream, revision, CLEAR_CACHE_SECRET>>
    /\ UNCHANGED <<coreVars, clientVars, gviz>>

\* the single-day fetch after await getDaySchedule(dayParam)
DayDone ==
    /\ \E i \in 1..MaxInFlight :
           /\ handlers[i].pc = "day"
           /\ LET h      == handlers[i]
                  result == getDaySchedule(h.day.n, upstream, revision)
              IN  /\ cache' = IF result.success
                              THEN set(cache, now, "schedule", h.cacheKey, result)
                              ELSE cache
                  /\ stores' = IF result.success
                               THEN Stored(stores, now, "schedule", h.cacheKey, result)
                               ELSE stores
                  /\ response' = [Answer(h, "schedule", IF result.success THEN 200 ELSE 400,
                                         result.success, FALSE, result)
                                     EXCEPT !.fetched = TRUE, !.changed = result.success]
                  /\ handlers' = [handlers EXCEPT ![i] = IdleHandler]
    /\ UNCHANGED <<now, upstream, revision, CLEAR_CACHE_SECRET>>
    /\ UNCHANGED <<coreVars, clientVars, gviz>>

\* one turn of the loop of the all-days fetch, after await getDaySchedule(d);
\* the last turn stores the week and responds
WeekDay ==
    /\ \E i \in 1..MaxInFlight :
           /\ handlers[i].pc = "week"
           /\ LET h    == handlers[i]
                  r    == getDaySchedule(h.d, upstream, revision)
                  week == WeekWith(h.week, r)
                  done == [h EXCEPT !.week = week,
                                    !.succeeded = IF r.success THEN @ \cup {h.d} ELSE @,
                                    !.d = h.d + 1]
                  body == [NullValue EXCEPT !.isNull = FALSE, !.week = week]
              IN  IF done.d < 5
                  THEN /\ handlers' = [handlers EXCEPT ![i] = done]
                       /\ UNCHANGED <<cache, stores, response>>
                  ELSE /\ cache' = set(cache, now, "week", <<"a","l","l">>, body)
                       /\ stores' = Stored(stores, now, "week", <<"a","l","l">>, body)
                       /\ response' = [Answer(done, "week", 200, TRUE, FALSE, body)
                                          EXCEPT !.fetched = TRUE, !.changed = TRUE]
                       /\ handlers' = [handlers EXCEPT ![i] = IdleHandler]
    /\ UNCHANGED <<now, upstream, revision, CLEAR_CACHE_SECRET>>
    /\ UNCHANGED <<coreVars, clientVars, gviz>>

\* the documentation response of the handler
Documentation(q, dayParam) ==
    [NoResponse EXCEPT !.kind = "documentation", !.status = 200, !.success = TRUE,
                       !.query = q, !.day = dayParam]

\* GET /api/schedule?action=search&query=...&day=...: up to the response
\* from the cache or the first await
SearchRequest ==
    /\ \E i \in 1..MaxInFlight : \E q \in SearchQueries : \E rawDay \in SearchDays :
       \E getDay \in GetDays :
           /\ FreeSlot(i)
           /\ LET dayParam == normalizeDayParam(rawDay, getDay)
                  cacheKey == getCacheKey("search", [query |-> q.s, day |-> DayOrAll(dayParam)])
                  h        == [IdleHandler EXCEPT !.day = dayParam, !.query = q.s,
                                                  !.cacheKey = cacheKey]
              IN  IF ~q.given \/ q.s = <<>>
                  THEN /\ response' = Documentation(q, dayParam)
                       /\ UNCHANGED handlers
                  ELSE IF isValid(cache, now, "search", cacheKey)
                  THEN /\ response' = Answer(h, "search", 200,
                                             get(cache, "search", cacheKey).success, TRUE,
                                             get(cache, "search", cacheKey))
                       /\ UNCHANGED handlers
                  ELSE /\ handlers' = [handlers EXCEPT ![i] = [h EXCEPT !.pc = "search"]]
                       /\ UNCHANGED response
    /\ UNCHANGED <<cache, now, stores, upstream, revision, CLEAR_CACHE_SECRET>>
    /\ UNCHANGED <<coreVars, clientVars, gviz>>

\* the search after await searchAcrossAllDays(query, day)
SearchDone ==
    /\ \E i \in 1..MaxInFlight :
           /\ handlers[i].pc = "search"
           /\ LET h      == handlers[i]
                  result == searchAcrossAllDays(h.query,
                                IF h.day = UndefinedDay THEN AllDays ELSE h.day,
                                upstream, revision, [query |-> h.query, day |-> h.day])
              IN  /\ cache' = set(cache, now, "search", h.cacheKey, result)
                  /\ stores' = stores
                  /\ response' = [Answer(h, "search", IF result.success THEN 200 ELSE 400,
                                         result.success, FALSE, result)
                                     EXCEPT !.fetched = TRUE, !.changed = TRUE]
                  /\ handlers' = [handlers EXCEPT ![i] = IdleHandler]
    /\ UNCHANGED <<now, upstream, revision, CLEAR_CACHE_SECRET>>
    /\ UNCHANGED <<coreVars, clientVars, gviz>>

\* the request passes the checks of the clear-cache handler
ClearAccepted(method, provided, secret) ==
    /\ method = "POST"
    /\ secret.given /\ secret.s # <<>> =>
           provided.given /\ provided.s # <<>> /\ provided.s = secret.s

\* a request to /api/clear-cache
ClearCache ==
    /\ \E method \in Methods : \E provided \in Headers :
           LET accepted == ClearAccepted(method, provided, CLEAR_CACHE_SECRET)
           IN  /\ cache' = IF accepted THEN clearAll(cache) ELSE cache
               /\ stores' = IF accepted THEN ClearedLog(stores) ELSE stores
               /\ response' = [NoResponse EXCEPT
                                  !.kind = "clear",
                                  !.status = IF method # "POST" THEN 405
                                             ELSE IF accepted THEN 200 ELSE 401,
                                  !.success = accepted,
                                  !.method = method, !.provided = provided,
                                  !.cleared = accepted,
                                  !.changed = accepted /\ cache # EmptyCache]
    /\ UNCHANGED <<now, handlers, upstream, revision, CLEAR_CACHE_SECRET>>
    /\ UNCHANGED <<coreVars, clientVars, gviz>>

\* Date.now() advances by half the TTL
Tick ==
    /\ now < MaxTicks * (CACHE_TTL_MS \div 2)
    /\ now' = now + (CACHE_TTL_MS \div 2)
    /\ UNCHANGED <<cache, handlers, response, stores, upstream, revision, CLEAR_CACHE_SECRET>>
    /\ UNCHANGED <<coreVars, clientVars, gviz>>

\* the document owner edits the sheet
SheetChanges ==
    /\ revision < MaxEdits
    /\ revision' = revision + 1
    /\ UNCHANGED <<cache, now, handlers, response, stores, upstream, CLEAR_CACHE_SECRET>>
    /\ UNCHANGED <<coreVars, clientVars, gviz>>

\* the day-fetch operation
InitFetchApi == InitApi(FetchSheets, {Given(TheSecret)})

NextFetchApi == FetchRequest \/ DayDone \/ WeekDay \/ ClearCache \/ Tick \/ SheetChanges

SpecFetchApi == InitFetchApi /\ [][NextFetchApi]_vars

\* the search operation
InitSearchApi == InitApi(SearchSheets, {Given(TheSecret)})

NextSearchApi == SearchRequest \/ SearchDone \/ ClearCache \/ Tick \/ SheetChanges

SpecSearchApi == InitSearchApi /\ [][NextSearchApi]_vars

(***************************************************************************)
(* getDaySchedule up to the parse: the grid arrives, the parser runs.      *)
(***************************************************************************)
InitParse ==
    /\ pc = "fetched"
    /\ LAB_LOOKAHEAD \in {0, 2}
    /\ gvizData \in ParseGrids
    /\ parsed = EmptyResult
    /\ cursor = <<>>
    /\ query = <<>>
    /\ searchResults = NoSearch
    /\ finderRange = NoRange
    /\ finderResults = <<>>
    /\ clock = NoClock
    /\ timeStr = <<>>
    /\ minutes = NoMinutes
    /\ ClientIdle
    /\ ServerIdle

Parse ==
    /\ pc = "fetched"
    /\ parsed' = parseClassroomData(gvizData, LAB_LOOKAHEAD)
    /\ cursor' = CursorTrace(gvizData, LAB_LOOKAHEAD)
    /\ pc' = IF parsed'.threw THEN "failed" ELSE "parsed"
    /\ UNCHANGED <<LAB_LOOKAHEAD, gvizData, query, searchResults,
                   finderRange, finderResults, clock, timeStr, minutes>>
    /\ UNCHANGED <<clientVars, serverVars>>

NextParse == Parse

SpecParse == InitParse /\ [][NextParse]_vars

\* the API-side helper parsing the grid the library parsed
ParseApi ==
    /\ pc \in {"parsed", "failed"}
    /\ ~apiParsed.called
    /\ apiParsed' = [called |-> TRUE, result |-> ApiParseClassroomData(gvizData)]
    /\ UNCHANGED <<scheduleData, cacheRef, inFlight, activeTab, freeQuery, freeTimeSlot,
                   freeResults, error, freeRequest, classSearch, freeCall, savedClasses, poll>>
    /\ UNCHANGED <<coreVars, serverVars>>

NextParsers == Parse \/ ParseApi

SpecParsers == InitParse /\ [][NextParsers]_vars

(***************************************************************************)
(* searchAcrossAllDays for one day: the day is fetched and parsed, then    *)
(* searchClasses runs on its classrooms.                                   *)
(***************************************************************************)
InitSearch ==
    /\ pc = "fetched"
    /\ LAB_LOOKAHEAD = 0
    /\ gvizData \in SearchGrids
    /\ parsed = EmptyResult
    /\ cursor = <<>>
    /\ query = <<>>
    /\ searchResults = NoSearch
    /\ finderRange = NoRange
    /\ finderResults = <<>>
    /\ clock = NoClock
    /\ timeStr = <<>>
    /\ minutes = NoMinutes
    /\ ClientIdle
    /\ ServerIdle

Search ==
    /\ pc = "parsed"
    /\ \E q \in Queries :
           /\ query' = q
           /\ searchResults' = searchClasses(parsed.classrooms, q)
    /\ pc' = "searched"
    /\ UNCHANGED <<LAB_LOOKAHEAD, gvizData, parsed, cursor,
                   finderRange, finderResults, clock, timeStr, minutes>>
    /\ UNCHANGED <<clientVars, serverVars>>

NextSearch == Parse \/ Search

SpecSearch == InitSearch /\ [][NextSearch]_vars

(***************************************************************************)
(* The finder form: the week holds Monday's parsed sheet (nothing when the *)
(* fetch failed), and the user asks for the free rooms of a time range.    *)
(***************************************************************************)
InitFinder ==
    /\ pc = "fetched"
    /\ LAB_LOOKAHEAD = 0
    /\ gvizData \in FinderGrids
    /\ parsed = EmptyResult
    /\ cursor = <<>>
    /\ query = <<>>
    /\ searchResults = NoSearch
    /\ finderRange = NoRange
    /\ finderResults = <<>>
    /\ clock = NoClock
    /\ timeStr = <<>>
    /\ minutes = NoMinutes
    /\ ClientIdle
    /\ ServerIdle

\* the week the API returns: a day is present when getDaySchedule succeeded
WeekData ==
    [isNull |-> FALSE,
     week   |-> IF pc = "parsed"
                THEN [d \in {"Monday"} |-> [classrooms |-> parsed.classrooms,
                                            timeSlots  |-> parsed.timeSlots]]
                ELSE <<>>]

Finder ==
    /\ pc \in {"parsed", "failed"}
    /\ \E day \in {"Monday", "Tuesday"} : \E r \in FinderRanges :
           /\ finderRange' = [day |-> day, start |-> r[1], end |-> r[2]]
           /\ finderResults' = findFreeRoomsForTimeRange(WeekData, day, r[1], r[2])
    /\ pc' = "finder"
    /\ UNCHANGED <<LAB_LOOKAHEAD, gvizData, parsed, cursor, query, searchResults,
                   clock, timeStr, minutes>>
    /\ UNCHANGED <<clientVars, serverVars>>

NextFinder == Parse \/ Finder

SpecFinder == InitFinder /\ [][NextFinder]_vars

(***************************************************************************)
(* The free ranges of a parsed sheet.                                      *)
(***************************************************************************)
NameRooms == <<"R","O","O","M","S">>

NameR(n) == <<"R", Digits[n + 1]>>

\* two rooms under a header that is complete or has a column without a label,
\* the second room named like a header row or not; and six rooms of one slot
FreeRangeGrids ==
    { SheetOf(kind, MaxCols, <<DataRow(NameA, c1), DataRow(name, c2)>>) :
        kind \in {"full", "gap"}, name \in {NameB, NameRooms},
        c1 \in [1..MaxCols -> {NoValueCell, Cell(TxtOrd)}],
        c2 \in [1..MaxCols -> {NoValueCell, Cell(TxtOrd)}] }
    \cup
    { SheetOf("full", 1, [n \in 1..6 |-> DataRow(NameR(n), <<IF n = 1 THEN c ELSE NoValueCell>>)]) :
        c \in {NoValueCell, Cell(TxtOrd)} }

\* the texts of the search box: blank, a class text, room ids, a part of a
\* room name, a text that matches nothing
FreeTexts ==
    { <<" ">>, <<"o","s">>, <<"A","1">>, <<"b","-","2">>, <<"a">>, <<"z","z">> }

\* scheduleData holding the parsed sheet as Monday of the week, as the single
\* day, or as the single day beside a week in which every day failed
ScheduleShapes == {"week", "day", "emptyWeek"}

ScheduleOf(sheet, shape) ==
    LET day == [classrooms |-> sheet.classrooms, timeSlots |-> sheet.timeSlots]
    IN  CASE shape = "week" -> MergeWeek(NullScheduleData, [d \in {"Monday"} |-> day])
          [] shape = "day"  -> MergeDay(NullScheduleData, day)
          [] OTHER          -> MergeDay(MergeWeek(NullScheduleData, EmptyWeek), day)

InitFreeRanges ==
    /\ pc = "fetched"
    /\ LAB_LOOKAHEAD = 0
    /\ gvizData \in FreeRangeGrids
    /\ parsed = EmptyResult
    /\ cursor = <<>>
    /\ query = <<>>
    /\ searchResults = NoSearch
    /\ finderRange = NoRange
    /\ finderResults = <<>>
    /\ clock = NoClock
    /\ timeStr = <<>>
    /\ minutes = NoMinutes
    /\ ClientIdle
    /\ ServerIdle

\* handleFreeSearch calling findFreeScheduleForQuery(freeQuery, 'all')
FindFreeSchedule ==
    /\ pc = "parsed"
    /\ \E shape \in ScheduleShapes : \E text \in FreeTexts :
           LET data == ScheduleOf(parsed, shape)
           IN  freeCall' = [called   |-> TRUE,
                            data     |-> data,
                            query    |-> text,
                            roomMode |-> RoomMode(data, text),
                            out      |-> findFreeScheduleForQuery(data, "Monday", text)]
    /\ UNCHANGED <<scheduleData, cacheRef, inFlight, activeTab, freeQuery, freeTimeSlot,
                   freeResults, error, freeRequest, classSearch, savedClasses, poll, apiParsed>>
    /\ pc' = "freeRanges"
    /\ UNCHANGED <<LAB_LOOKAHEAD, gvizData, parsed, cursor, query, searchResults,
                   finderRange, finderResults, clock, timeStr, minutes>>
    /\ UNCHANGED serverVars

NextFreeRanges == Parse \/ FindFreeSchedule

SpecFreeRanges == InitFreeRanges /\ [][NextFreeRanges]_vars

(***************************************************************************)
(* The minute parsers applied to a label written from an hour and minute.  *)
(***************************************************************************)
LabelSuffixes == { <<>>, <<"-","9",":","5","0">>, <<"7">>, <<" ","P","M">> }

InitMinutes ==
    /\ pc = "label"
    /\ LAB_LOOKAHEAD = 0
    /\ gvizData = Grid(<<>>)
    /\ parsed = EmptyResult
    /\ cursor = <<>>
    /\ query = <<>>
    /\ searchResults = NoSearch
    /\ finderRange = NoRange
    /\ finderResults = <<>>
    /\ \E h \in 0..23 : \E m \in 0..59 : \E padded \in BOOLEAN : \E suffix \in LabelSuffixes :
           /\ clock = [h |-> h, m |-> m]
           /\ timeStr = (IF padded THEN PaddedClock(h, m) ELSE Clock(h, m)) \o suffix
    /\ minutes = NoMinutes
    /\ ClientIdle
    /\ ServerIdle

ParseMinutes ==
    /\ pc = "label"
    /\ minutes' = [parseTimeToMinutes |-> parseTimeToMinutes(timeStr),
                   toMinutes          |-> toMinutes(timeStr)]
    /\ pc' = "minutes"
    /\ UNCHANGED <<LAB_LOOKAHEAD, gvizData, parsed, cursor, query, searchResults,
                   finderRange, finderResults, clock, timeStr>>
    /\ UNCHANGED <<clientVars, serverVars>>

NextMinutes == ParseMinutes

SpecMinutes == InitMinutes /\ [][NextMinutes]_vars

(***************************************************************************)
(* Properties of parseClassroomData.                                       *)
(***************************************************************************)
Returned == pc \in {"parsed", "searched", "finder"}

LongEnough == gvizData.hasTable /\ gvizData.hasRows /\ Len(gvizData.rows) >= 3

\* the data row the k-th classroom was built from
RoomRow(k) == gvizData.rows[KeptRows(gvizData.rows, 3)[k]]

Rooms == 1..Len(parsed.classrooms)

SlotIndices == {parsed.timeSlots[k].index : k \in 1..Len(parsed.timeSlots)}

\* positions of the entries of classroom k at column col
EntriesAt(k, col) ==
    {m \in 1..Len(parsed.classrooms[k].schedule) :
        parsed.classrooms[k].schedule[m].timeIndex = col}

IsBlank(cell) == cell.isNull \/ ~cell.hasV \/ \A m \in 1..Len(cell.v) : cell.v[m] = " "

HasSpanMeta(cell) ==
    /\ ~cell.isNull
    /\ cell.hasP
    /\ (cell.p.colSpan # Undef \/ cell.p.colspan # Undef \/ cell.p.span # Undef)

\* the explicit span n a cell carries, 0 if it carries none
ExplicitSpan(cell) ==
    IF ~HasSpanMeta(cell) THEN 0
    ELSE LET first == IF cell.p.colSpan # Undef THEN cell.p.colSpan
                      ELSE IF cell.p.colspan # Undef THEN cell.p.colspan
                      ELSE cell.p.span
         IN  IF first > 0 THEN first ELSE 0

\* the entries of classroom k at the columns j..j+n-1: one per column that is a
\* slot index, none elsewhere, each with the text and code of the cell at j
OwnEntries(k, j, n) ==
    LET text == trim(RoomRow(k).c[j + 1].v)
    IN  \A col \in j..(j + n - 1) :
            /\ Cardinality(EntriesAt(k, col)) = (IF col \in SlotIndices THEN 1 ELSE 0)
            /\ \A m \in EntriesAt(k, col) :
                   /\ parsed.classrooms[k].schedule[m].class = text
                   /\ parsed.classrooms[k].schedule[m].code = extractClassCode(text)

\* C1: every cell the column loop reaches at column j with explicit span n
\* yields exactly n entries (fewer only where a column of j..j+n-1 is no slot
\* index), all with the cell's own text and code, at j, j+1, ..., j+n-1; the
\* loop then continues at column j+n.
C1_ExplicitSpanEmitsN ==
    Returned =>
        \A k \in Rooms : \A m \in 1..Len(cursor[k]) :
            LET j == cursor[k][m].j
                n == ExplicitSpan(RoomRow(k).c[j + 1])
            IN  n > 0 => cursor[k][m].span = n /\ OwnEntries(k, j, n)

\* the grid is valid: at least three rows, every row and cell collection
\* present, every data row named, and a time slot for every data column
ValidGrid ==
    /\ LongEnough
    /\ \A i \in 2..Len(gvizData.rows) :
           ~gvizData.rows[i].isNull /\ gvizData.rows[i].hasC
    /\ \A i \in 3..Len(gvizData.rows) :
           /\ Len(gvizData.rows[i].c) >= 1
           /\ ~IsBlank(gvizData.rows[i].c[1])
           /\ \A j \in 1..(Len(gvizData.rows[i].c) - 1) :
                  /\ j + 1 <= Len(gvizData.rows[2].c)
                  /\ ~IsBlank(gvizData.rows[2].c[j + 1])

NoSpanMetadata ==
    \A i \in 3..Len(gvizData.rows) : \A j \in 1..Len(gvizData.rows[i].c) :
        ~HasSpanMeta(gvizData.rows[i].c[j])

CoveringLab(c, col, max) ==
    LET before == {j \in 1..(col - 1) : ~IsBlank(c[j + 1])}
    IN  IF before = {} THEN 0
        ELSE LET j == CHOOSE b \in before : \A o \in before : o <= b
             IN  IF LabWordTest(trim(c[j + 1].v)) /\ col - j <= max THEN j ELSE 0

FollowingBlanks(c, j, bound) ==
    LET runs == {e \in 0..bound :
                    /\ j + e <= Len(c) - 1
                    /\ \A d \in 1..e : IsBlank(c[j + d + 1])}
    IN  CHOOSE e \in runs : \A o \in runs : o <= e

LookaheadBound == IF LAB_LOOKAHEAD = 0 THEN DEFAULT_LOOKAHEAD ELSE LAB_LOOKAHEAD

\* the cell is a lab cell: non-blank text with the whole word "lab", no span metadata
PlainLabCell(cell) == ~IsBlank(cell) /\ LabWordTest(trim(cell.v)) /\ ~HasSpanMeta(cell)

HeaderWithoutCells ==
    LongEnough /\ ~gvizData.rows[2].isNull /\ ~gvizData.rows[2].hasC

TooShort == ~gvizData.hasTable \/ ~gvizData.hasRows \/ Len(gvizData.rows) < 3

NamedRows ==
    {i \in 3..Len(gvizData.rows) :
        /\ ~gvizData.rows[i].isNull
        /\ gvizData.rows[i].hasC
        /\ Len(gvizData.rows[i].c) >= 1
        /\ ~gvizData.rows[i].c[1].isNull
        /\ gvizData.rows[i].c[1].hasV
        /\ Len(gvizData.rows[i].c[1].v) > 0}

C5_NeverThrows ==
    (pc # "fetched" /\ LongEnough) => (pc # "failed" /\ ~parsed.threw)

(***************************************************************************)
(* Properties of searchClasses.                                            *)
(***************************************************************************)
SearchTerm == trim(toLowerCase(query))

SlotOf(h) == parsed.classrooms[h[1]].schedule[h[2]]

NameOf(h) == parsed.classrooms[h[1]].name

\* the hits: the (classroom, entry) pairs the query matches
HitSlots ==
    IF Len(SearchTerm) = 0 THEN {}
    ELSE {h \in UNION {{<<k, m>> : m \in 1..Len(parsed.classrooms[k].schedule)} : k \in Rooms} :
             SlotMatches(parsed.classrooms[h[1]], SlotOf(h), SearchTerm)}

ResultsWith(time, code) ==
    {r \in 1..Len(searchResults.results) :
        searchResults.results[r].time = time /\ searchResults.results[r].code = code}

\* C6: every hit whose class text has no whole word "lab" is reported by a
\* result of its own that carries the slot's own time, never a merged range;
\* when no hit is a lab, there are as many results as hits.
C6_NonLabOnePerSlot ==
    (pc = "searched" /\ ~searchResults.threw) =>
        /\ \A h \in HitSlots :
               ~LabWordTest(SlotOf(h).class) =>
                   Cardinality(ResultsWith(SlotOf(h).time, SlotOf(h).code)) >=
                   Cardinality({o \in HitSlots :
                                   /\ ~LabWordTest(SlotOf(o).class)
                                   /\ SlotOf(o).time = SlotOf(h).time
                                   /\ SlotOf(o).code = SlotOf(h).code})
        /\ (\A h \in HitSlots : ~LabWordTest(SlotOf(h).class)) =>
               Len(searchResults.results) = Cardinality(HitSlots)

\* the hits of the group of room name nm and class text t
GroupHits(nm, t) == {h \in HitSlots : NameOf(h) = nm /\ SlotOf(h).class = t}

GroupIndices(nm, t) == {SlotOf(h).timeIndex : h \in GroupHits(nm, t)}

LabelOf(index) == parsed.timeSlots[CHOOSE k \in 1..Len(parsed.timeSlots) :
                                       parsed.timeSlots[k].index = index].time

\* the part of a label before its first '-' and the part after it
StartPart(label) ==
    LET dashes == {k \in 1..Len(label) : label[k] = "-"}
    IN  IF dashes = {} THEN label
        ELSE trim(SubSeq(label, 1, (CHOOSE k \in dashes : \A o \in dashes : k <= o) - 1))

EndPart(label) ==
    LET dashes == {k \in 1..Len(label) : label[k] = "-"}
        first  == CHOOSE k \in dashes : \A o \in dashes : k <= o
        later  == {k \in dashes : k > first}
        stop   == IF later = {} THEN Len(label) + 1
                  ELSE CHOOSE k \in later : \A o \in later : k <= o
    IN  trim(SubSeq(label, first + 1, stop - 1))

\* the time of the result of the run of slots a..b
RunTime(a, b) ==
    IF a = b THEN LabelOf(a) ELSE StartPart(LabelOf(a)) \o <<"-">> \o EndPart(LabelOf(b))

RECURSIVE SumOver(_, _, _, _)
SumOver(S, nm, t, acc) ==
    IF S = {} THEN acc
    ELSE LET x == CHOOSE y \in S : TRUE
         IN  SumOver(S \ {x}, nm, t,
                     acc + Cardinality({h \in GroupHits(nm, t) : SlotOf(h).timeIndex = x})
                         - (IF x - 1 \in GroupIndices(nm, t) THEN 1 ELSE 0))

\* the number of maximal runs of the group's slots sorted by index
RunCount(nm, t) == SumOver(GroupIndices(nm, t), nm, t, 0)

\* C7: a group of hits whose class text has the whole word "lab" yields one
\* result per maximal run of index-contiguous slots; the result of the run
\* a..b carries the start part of a's label, '-', and the end part of b's label.
C7_LabRunsMerged ==
    pc = "searched" =>
        \A g \in HitSlots :
            LET nm == NameOf(g)
                t  == SlotOf(g).class
            IN  LabWordTest(t) =>
                    /\ ~searchResults.threw
                    /\ Cardinality({r \in 1..Len(searchResults.results) :
                                       /\ searchResults.results[r].classroom = nm
                                       /\ searchResults.results[r].class = t}) = RunCount(nm, t)
                    /\ \A a, b \in GroupIndices(nm, t) :
                           ( /\ a <= b
                             /\ (a..b) \subseteq GroupIndices(nm, t)
                             /\ (a - 1) \notin GroupIndices(nm, t)
                             /\ (b + 1) \notin GroupIndices(nm, t) )
                           => \E r \in 1..Len(searchResults.results) :
                                  /\ searchResults.results[r].classroom = nm
                                  /\ searchResults.results[r].class = t
                                  /\ searchResults.results[r].time = RunTime(a, b)

\* C8: every result carries the room name and the raw class text of hits of
\* one room and one class text: its classroom and class fields are those of a
\* hit with the result's code.
C8_GroupedByRoomAndText ==
    (pc = "searched" /\ ~searchResults.threw) =>
        \A r \in 1..Len(searchResults.results) :
            \E h \in HitSlots :
                /\ searchResults.results[r].classroom = NameOf(h)
                /\ searchResults.results[r].class = SlotOf(h).class
                /\ searchResults.results[r].code = SlotOf(h).code

(***************************************************************************)
(* Properties of findFreeRoomsForTimeRange and of the minute parsers.      *)
(***************************************************************************)
\* the finder ran on a loaded day with a start and an end that parse
FinderAnswered ==
    /\ pc = "finder"
    /\ ~parsed.threw
    /\ finderRange.day = "Monday"
    /\ toMinutes(finderRange.start) # NullMinutes
    /\ toMinutes(finderRange.end) # NullMinutes

\* the indices of the time slots whose start minute lies in [start, end)
SlotsInRange ==
    {parsed.timeSlots[k].index : k \in
        {o \in 1..Len(parsed.timeSlots) :
            /\ toMinutes(parsed.timeSlots[o].time) # NullMinutes
            /\ toMinutes(parsed.timeSlots[o].time) >= toMinutes(finderRange.start)
            /\ toMinutes(parsed.timeSlots[o].time) < toMinutes(finderRange.end)}}

\* room k has an occupying entry at the slot: a text that is neither empty
\* nor made of dashes only
Occupied(k, index) ==
    \E m \in EntriesAt(k, index) :
        LET text == parsed.classrooms[k].schedule[m].class
        IN  Len(text) > 0 /\ \E c \in 1..Len(text) : text[c] # "-"

\* room k is among the rooms the finder returned
Listed(k) ==
    \E i \in 1..Len(finderResults) :
        /\ finderResults[i].name = parsed.classrooms[k].name
        /\ finderResults[i].schedule = parsed.classrooms[k].schedule

\* C9 as stated: a classroom is returned if and only if every time slot whose
\* start minute lies in [start, end) has no occupying entry for it.
C9_FreeIffEverySlotFree ==
    FinderAnswered =>
        \A k \in Rooms : Listed(k) <=> \A index \in SlotsInRange : ~Occupied(k, index)

\* the rooms the finder is to return
FreeRooms ==
    {k \in Rooms :
        /\ Len(parsed.classrooms[k].name) > 0
        /\ SlotsInRange # {}
        /\ \A index \in SlotsInRange : ~Occupied(k, index)}

\* C9 as amended: a classroom is returned if and only if it has a non-empty
\* name, at least one time slot has its start minute in [start, end), and
\* every such slot has no occupying entry for it; the rooms come in sheet
\* order, and nothing is returned when the day is not loaded or the start or
\* the end does not parse.
C9_FreeIffSlotsInRangeAllFree ==
    pc = "finder" =>
        IF FinderAnswered
        THEN /\ Len(finderResults) = Cardinality(FreeRooms)
             /\ \A k \in FreeRooms :
                    LET i == Cardinality({o \in FreeRooms : o <= k})
                    IN  /\ finderResults[i].name = parsed.classrooms[k].name
                        /\ finderResults[i].schedule = parsed.classrooms[k].schedule
        ELSE finderResults = <<>>

\* a room was returned for a range that holds two slots, one of which carries
\* an entry for the room (of dashes or without text)
C9_Witness ==
    /\ FinderAnswered
    /\ Cardinality(SlotsInRange) >= 2
    /\ \E k \in Rooms : Listed(k) /\ \E index \in SlotsInRange : EntriesAt(k, index) # {}

ExpectedMinutes ==
    IF clock.h >= 1 /\ clock.h < 8 THEN (clock.h + 12) * 60 + clock.m
    ELSE clock.h * 60 + clock.m

\* C10: for a label that begins with H:MM or HH:MM both minute parsers return
\* (h + 12) * 60 + m when 1 <= h < 8 and h * 60 + m otherwise.
C10_MinuteParsing ==
    pc = "minutes" =>
        /\ minutes.parseTimeToMinutes = ExpectedMinutes
        /\ minutes.toMinutes = ExpectedMinutes

\* the label 1:30 was parsed to 810 minutes
C10_Witness ==
    /\ pc = "minutes"
    /\ timeStr = <<"1",":","3","0">>
    /\ minutes.parseTimeToMinutes = 810
    /\ minutes.toMinutes = 810

(***************************************************************************)
(* Properties of the free-slot search of the component.                    *)
(***************************************************************************)
\* C11: a free-slot request (text query or selected time slot) made while no
\* day's schedule is loaded sets the retry-shortly message, and the view does
\* not show an empty or no-matches result.
C11_NoDataGivesRetrySignal ==
    (freeRequest # {} /\ ~HoldsSomeDay(scheduleData)) =>
        /\ error = RetryMessage
        /\ freeResults.kind \notin {"noMatches", "empty"}

(***************************************************************************)
(* Properties of the schedule API and its cache.                           *)
(***************************************************************************)
\* the last response answers a day fetch with a valid day selector
DayFetchAnswered == response.kind \in {"week", "schedule"}

\* C12 as stated: a day fetch (single day and 'all') is served from the server
\* cache exactly when a result for the same day selector was stored less than
\* TTL ago; the cache-served response carries the payload that was stored and
\* is flagged cached: true; otherwise the request performs a fresh upstream
\* fetch and is flagged cached: false.
C12_CachedIffStoredWithinTtl ==
    DayFetchAnswered =>
        /\ response.cached <=> response.recent
        /\ response.cached => response.body = response.recentValue
        /\ ~response.cached => response.fetched

\* C12 amended: a day fetch is served from the server cache exactly when a
\* result for the same day selector was stored less than TTL ago and the cache
\* has not been cleared since that store; the cache-served response carries
\* the payload that was stored and is flagged cached: true; otherwise the
\* request performs a fresh upstream fetch and is flagged cached: false.
C12_CachedIffStoredAndKept ==
    DayFetchAnswered =>
        /\ response.cached <=> response.recentKept
        /\ response.cached => response.body = response.recentValue
        /\ ~response.cached => response.fetched

\* a single-day fetch is answered from the cache with the payload of an
\* earlier revision of the sheet
C12_Witness ==
    /\ response.kind = "schedule"
    /\ response.cached
    /\ response.recentKept
    /\ response.body.data < revision

\* the days a search with the given normalized day parameter covers: the
\* handler passes 'all' to searchAcrossAllDays when the parameter is undefined
SearchSelector(day) == IF day = UndefinedDay THEN AllDays ELSE day

\* C13: a search response served from the cache was computed for the same
\* query and the same normalized day selector as the request it answers.
C13_CachedSearchSameQueryAndDay ==
    (response.kind = "search" /\ response.cached) =>
        /\ response.body.scope.query = response.query.s
        /\ SearchSelector(response.body.scope.day) = SearchSelector(response.day)

(***************************************************************************)
(* The clear-cache endpoint, in a deployment with and without              *)
(* CLEAR_CACHE_SECRET, in front of a cache that holds entries.             *)
(***************************************************************************)
\* the week mapping of an all-days fetch of the served sheets
WeekOf(sheets, rev) ==
    [NullValue EXCEPT !.isNull = FALSE,
                      !.week = [n \in { days[d + 1] : d \in { x \in 0..4 : sheets[x] = "ok" } }
                                    |-> rev]]

\* the cache after a fetch of Monday, a fetch of the week, a search, and all
\* three, at the time the module was loaded
FilledCaches ==
    LET monday == set(EmptyCache, 0, "schedule", <<"0">>, getDaySchedule(0, AllOk, 0))
        week   == set(EmptyCache, 0, "week", <<"a","l","l">>, WeekOf(AllOk, 0))
        search == set(EmptyCache, 0, "search", <<"c","s",":","1">>,
                      searchAcrossAllDays(<<"c","s">>, DayNumber(1), AllOk, 0,
                                          [query |-> <<"c","s">>, day |-> DayNumber(1)]))
        all    == set(set(monday, 0, "week", <<"a","l","l">>, WeekOf(AllOk, 0)),
                      0, "search", <<"c","s",":","1">>, search.search[<<"c","s",":","1">>])
    IN  { EmptyCache, monday, week, search, all }

InitClear ==
    /\ CoreIdle
    /\ ClientIdle
    /\ cache \in FilledCaches
    /\ now = 0
    /\ handlers = [i \in 1..MaxInFlight |-> IdleHandler]
    /\ response = NoResponse
    /\ stores = EmptyMap
    /\ upstream = AllOk
    /\ revision = 0
    /\ CLEAR_CACHE_SECRET \in Secrets
    /\ gviz = NoCall

NextClear == ClearCache \/ Tick

SpecClear == InitClear /\ [][NextClear]_vars

\* a request to the clear-cache endpoint has been answered in this step
ClearAnswered == response' # response /\ response'.kind = "clear"

\* the request is a POST whose x-tt-secret header equals the shared secret
Authenticated(r) ==
    /\ r.method = "POST"
    /\ CLEAR_CACHE_SECRET.given
    /\ r.provided = CLEAR_CACHE_SECRET

\* no week, schedule or search entry of the cache is valid
NothingValid(c, t) ==
    /\ ~isValid(c, t, "week", <<"a","l","l">>)
    /\ \A kind \in {"schedule", "search"} :
       \A key \in { <<"0">>, <<"c","s",":","1">> } : ~isValid(c, t, kind, key)

\* C14: in every configuration the cache is cleared only by a POST whose
\* x-tt-secret header equals the shared secret; any other request leaves the
\* cache, entries and timestamps, unchanged; after an accepted request no
\* schedule, search or week entry is valid.
C14_ClearedOnlyWithSecret ==
    [][ClearAnswered =>
          /\ Authenticated(response') => NothingValid(cache', now')
          /\ ~Authenticated(response') => cache' = cache]_vars

\* the names of the days whose sheet is served
ServedDays == { days[d + 1] : d \in { x \in 0..4 : upstream[x] = "ok" } }

\* C15: an all-days fetch in which any subset of the five day fetches fails is
\* answered with status 200 and success: true, and its week mapping holds
\* exactly the days whose fetch succeeded.
C15_WeekHoldsSucceededDays ==
    response.kind = "week" =>
        /\ response.status = 200
        /\ response.success
        /\ DOMAIN response.body.week = ServedDays

\* an all-days fetch with Monday and Friday failing has been answered
C15_Witness ==
    /\ response.kind = "week"
    /\ response.fetched
    /\ upstream[0] = "down" /\ upstream[4] = "down"
    /\ DOMAIN response.body.week = {"Tuesday", "Wednesday", "Thursday"}

\* the last response answers a search request without a query, or with the
\* empty query
EmptySearchAnswered ==
    /\ response.kind \in {"documentation", "search"}
    /\ (~response.query.given \/ response.query.s = <<>>)

\* C16: a search request whose query is empty or missing is answered with
\* success: false, and is neither passed to searchAcrossAllDays nor written
\* to the cache.
C16_EmptyQueryIsCallerError ==
    EmptySearchAnswered =>
        /\ ~response.success
        /\ ~response.fetched
        /\ ~response.changed

(***************************************************************************)
(* The class search of the component.                                      *)
(***************************************************************************)
InitClassSearch == CoreIdle /\ ClientIdle /\ ServerIdle

\* typing in the search box: the effect on [searchQuery] clears the pending
\* timer and starts a new one
SetSearchQuery ==
    /\ \E q \in SearchTexts :
           /\ q # classSearch.searchQuery
           /\ classSearch' = [classSearch EXCEPT !.searchQuery = q,
                                                 !.timer = [set |-> TRUE, query |-> q]]
    /\ UNCHANGED <<scheduleData, cacheRef, inFlight, activeTab, freeQuery, freeTimeSlot,
                   freeResults, error, freeRequest, pageVars>>
    /\ UNCHANGED <<coreVars, serverVars>>

\* the timer of the effect fires after 100 ms
DebounceFires ==
    /\ classSearch.timer.set
    /\ \E today \in GetDays :
           LET q    == classSearch.timer.query
               path == SearchPath(classSearch, q)
           IN  /\ path = "fetch" => \E i \in 1..MaxSearches : ~classSearch.controllers[i].inFlight
               /\ classSearch' = [(IF trim(q) # <<>>
                                   THEN performSearch(classSearch, q, today)
                                   ELSE [classSearch EXCEPT !.searchResults = NullResults])
                                     EXCEPT !.timer = NoTimer]
               /\ error' = IF path = "fetch" THEN NoError ELSE error
    /\ UNCHANGED <<scheduleData, cacheRef, inFlight, activeTab, freeQuery, freeTimeSlot,
                   freeResults, freeRequest, pageVars>>
    /\ UNCHANGED <<coreVars, serverVars>>

\* performSearch after its await: the response of a request arrives, or the
\* fetch rejects
SearchResponse ==
    /\ \E i \in 1..MaxSearches : \E outcome \in {"success", "failure", "network"} :
           /\ classSearch.controllers[i].inFlight
           /\ LET c        == classSearch.controllers[i]
                  finished == [classSearch EXCEPT
                                  !.controllers[i] = NoController,
                                  !.loading = FALSE,
                                  !.searchAbortRef = IF @ = i THEN 0 ELSE @]
              IN  IF c.aborted
                  THEN /\ classSearch' = finished
                       /\ error' = error
                  ELSE IF outcome = "success"
                  THEN /\ classSearch' =
                              [finished EXCEPT
                                  !.search = @ \cup {c.query},
                                  !.lastSearchQuery = c.query,
                                  !.searchResults = DataOf(c.query),
                                  !.searchFilterDay = [isNull |-> FALSE, n |-> c.filterDay],
                                  !.applied = [set |-> TRUE, query |-> c.query,
                                               latest |-> classSearch.issued]]
                       /\ error' = error
                  ELSE /\ classSearch' = finished
                       /\ error' = IF outcome = "failure" THEN SearchFailedMessage
                                   ELSE NetworkMessage
    /\ UNCHANGED <<scheduleData, cacheRef, inFlight, activeTab, freeQuery, freeTimeSlot,
                   freeResults, freeRequest, pageVars>>
    /\ UNCHANGED <<coreVars, serverVars>>

NextClassSearch == SetSearchQuery \/ DebounceFires \/ SearchResponse

SpecClassSearch == InitClassSearch /\ [][NextClassSearch]_vars

\* C17: searchResults is never set from the response to a query other than
\* the most recently issued one, whatever the order of the performSearch
\* calls (calls answered from the client cache included) and of the responses.
C17_SupersededResponseDiscarded ==
    classSearch.applied.set => classSearch.applied.query = classSearch.applied.latest

(***************************************************************************)
(* fetchGVizData as getDaySchedule awaits it: the upstream may answer,     *)
(* refuse, stall or stay silent.                                           *)
(***************************************************************************)
InitGViz == CoreIdle /\ ClientIdle /\ ServerIdle

\* getDaySchedule calls fetchGVizData(gid); the previous call has settled
CallFetchGVizData ==
    /\ gviz.promise # "pending"
    /\ gviz.calls < MaxCalls
    /\ gviz' = [NoCall EXCEPT !.promise = "pending", !.socket = "open",
                              !.calls = gviz.calls + 1]
    /\ UNCHANGED <<cache, now, handlers, response, stores, upstream, revision,
                   CLEAR_CACHE_SECRET>>
    /\ UNCHANGED <<coreVars, clientVars>>

\* the response head arrives: the callback installs 'data' and 'end'
ResponseHead ==
    /\ gviz.promise = "pending"
    /\ gviz.socket = "open"
    /\ gviz' = [gviz EXCEPT !.socket = "receiving", !.idle = 0]
    /\ UNCHANGED <<cache, now, handlers, response, stores, upstream, revision,
                   CLEAR_CACHE_SECRET>>
    /\ UNCHANGED <<coreVars, clientVars>>

\* response.on('data'): buffer += chunk
DataListener ==
    /\ gviz.socket = "receiving"
    /\ gviz.chunks < MaxChunks
    /\ \E chunk \in Chunks :
           gviz' = [gviz EXCEPT !.buffer = @ \o chunk, !.chunks = @ + 1, !.idle = 0]
    /\ UNCHANGED <<cache, now, handlers, response, stores, upstream, revision,
                   CLEAR_CACHE_SECRET>>
    /\ UNCHANGED <<coreVars, clientVars>>

\* response.on('end')
ResponseEnd ==
    /\ gviz.socket = "receiving"
    /\ LET settled == EndListener(gviz.buffer)
       IN  gviz' = [gviz EXCEPT !.promise = settled.promise, !.error = settled.error,
                                !.value = settled.value, !.socket = "closed"]
    /\ UNCHANGED <<cache, now, handlers, response, stores, upstream, revision,
                   CLEAR_CACHE_SECRET>>
    /\ UNCHANGED <<coreVars, clientVars>>

\* the request fails before a response: .on('error')
ErrorListener ==
    /\ gviz.promise = "pending"
    /\ gviz.socket = "open"
    /\ gviz' = [gviz EXCEPT !.promise = "rejected",
                            !.error = "Network error fetching from Google Sheets",
                            !.socket = "closed"]
    /\ UNCHANGED <<cache, now, handlers, response, stores, upstream, revision,
                   CLEAR_CACHE_SECRET>>
    /\ UNCHANGED <<coreVars, clientVars>>

\* a third of the timeout passes without activity on the socket
SocketIdle ==
    /\ gviz.socket \in {"open", "receiving"}
    /\ gviz.idle < TIMEOUT
    /\ gviz' = [gviz EXCEPT !.idle = @ + (TIMEOUT \div 3)]
    /\ UNCHANGED <<cache, now, handlers, response, stores, upstream, revision,
                   CLEAR_CACHE_SECRET>>
    /\ UNCHANGED <<coreVars, clientVars>>

\* the socket has been idle for TIMEOUT: Node emits 'timeout' on the request;
\* the code has no listener for it, and the request stays open
TimeoutEvent ==
    /\ gviz.socket \in {"open", "receiving"}
    /\ gviz.idle = TIMEOUT
    /\ ~gviz.timedOut
    /\ gviz' = [gviz EXCEPT !.timedOut = TRUE]
    /\ UNCHANGED <<cache, now, handlers, response, stores, upstream, revision,
                   CLEAR_CACHE_SECRET>>
    /\ UNCHANGED <<coreVars, clientVars>>

NextGViz ==
    \/ CallFetchGVizData
    \/ ResponseHead
    \/ DataListener
    \/ ResponseEnd
    \/ ErrorListener
    \/ SocketIdle
    \/ TimeoutEvent

SpecGViz == InitGViz /\ [][NextGViz]_vars

\* time passes and Node's timer fires; the upstream is under no obligation
SpecGVizFair == SpecGViz /\ WF_vars(SocketIdle) /\ WF_vars(TimeoutEvent)

\* C18: every call of fetchGVizData eventually settles, resolved with the
\* parsed grid or rejected with an error.
C18_FetchSettles ==
    (gviz.promise = "pending") ~> (gviz.promise \in {"resolved", "rejected"})

(***************************************************************************)
(* Properties of the search and the parser on anomalous sheets.            *)
(***************************************************************************)
\* searchAcrossAllDays for a request that covers the day of the parsed sheet:
\* a throw of searchClasses inside runSearchForDay rejects the promise of the
\* day, await (and Promise.all) rethrows it, and the catch block answers
AcrossAllDays(classes) ==
    IF classes.threw THEN [success |-> FALSE, results |-> <<>>]
    ELSE [success |-> TRUE, results |-> classes.results]

\* C19: for any parsed schedule, time labels that are not of the form
\* start-end included, searchClasses returns its results without throwing,
\* and searchAcrossAllDays does not answer success: false because of the
\* sheet of one day.
C19_AnomalyNotEscalated ==
    pc = "searched" =>
        /\ ~searchResults.threw
        /\ AcrossAllDays(searchResults).success

\* the data rows whose first cell is missing, empty or whitespace-only
UnnamedRows ==
    {i \in 3..Len(gvizData.rows) :
        \/ gvizData.rows[i].isNull
        \/ ~gvizData.rows[i].hasC
        \/ Len(gvizData.rows[i].c) = 0
        \/ CellText(gvizData.rows[i].c[1]) = <<>>}

\* C20: every classroom in the output of parseClassroomData has a non-empty
\* name; a row whose first cell is missing, empty or whitespace-only produces
\* no classroom.
C20_ClassroomsAreNamed ==
    (Returned /\ LongEnough) =>
        /\ \A k \in 1..Len(parsed.classrooms) : parsed.classrooms[k].name # <<>>
        /\ Len(parsed.classrooms) = Len(gvizData.rows) - 2 - Cardinality(UnnamedRows)

\* C21: the lab fallback is applied only to a cell without span metadata
\* whose text contains the whole word "lab"; for any other cell the column
\* loop reaches (ordinary text, or a cell with span metadata) trailing blank
\* cells do not extend the span: it is the explicit span, or 1.
C21_FallbackOnlyForPlainLab ==
    Returned =>
        \A k \in Rooms : \A m \in 1..Len(cursor[k]) :
            LET j    == cursor[k][m].j
                cell == RoomRow(k).c[j + 1]
            IN  ~PlainLabCell(cell) =>
                    cursor[k][m].span = (IF ExplicitSpan(cell) > 0 THEN ExplicitSpan(cell) ELSE 1)

\* C22: in every classroom the schedule entries have strictly increasing
\* timeIndex values, and the column loop reaches no column twice: an
\* iteration starts past the columns the previous one spanned.
C22_TimeIndexIncreasing ==
    Returned =>
        \A k \in Rooms :
            LET sched == parsed.classrooms[k].schedule
            IN  /\ \A m \in 1..(Len(sched) - 1) : sched[m].timeIndex < sched[m + 1].timeIndex
                /\ \A m \in 1..(Len(cursor[k]) - 1) :
                       cursor[k][m + 1].j >= cursor[k][m].j + cursor[k][m].span

\* a row with a lab cell widened by the fallback and a cell with an explicit
\* span of 2 was parsed
C22_Witness ==
    /\ pc = "parsed"
    /\ \E k \in Rooms : \E m1, m2 \in 1..Len(cursor[k]) :
           /\ PlainLabCell(RoomRow(k).c[cursor[k][m1].j + 1])
           /\ cursor[k][m1].span >= 2
           /\ ExplicitSpan(RoomRow(k).c[cursor[k][m2].j + 1]) = 2
           /\ Len(parsed.classrooms[k].schedule) >= 3

\* C23: every schedule entry has the timeIndex of a time slot of the same
\* result and that slot's label as its time; a cell or spanned column on a
\* column without a time slot is not stored.
C23_EntriesOnTimeSlots ==
    Returned =>
        \A k \in Rooms : \A m \in 1..Len(parsed.classrooms[k].schedule) :
            LET entry == parsed.classrooms[k].schedule[m]
            IN  \E n \in 1..Len(parsed.timeSlots) :
                    /\ parsed.timeSlots[n].index = entry.timeIndex
                    /\ parsed.timeSlots[n].time = entry.time
                    /\ parsed.timeSlots[n].label = entry.time

\* a row was parsed that has a non-blank cell on a column without a time
\* slot and entries on other columns
C23_Witness ==
    /\ pc = "parsed"
    /\ \E k \in Rooms : \E j \in 1..(Len(RoomRow(k).c) - 1) :
           /\ ~IsBlank(RoomRow(k).c[j + 1])
           /\ j \notin SlotIndices
           /\ EntriesAt(k, j) = {}
           /\ parsed.classrooms[k].schedule # <<>>

(***************************************************************************)
(* The free ranges of findFreeScheduleForQuery.                            *)
(***************************************************************************)
\* the days the last call went through and the data of each
CallDays ==
    IF ~freeCall.called \/ trim(freeCall.query) = <<>> THEN {}
    ELSE IF freeCall.data.hasWeek /\ DOMAIN freeCall.data.week # {} THEN DOMAIN freeCall.data.week
    ELSE IF freeCall.data.hasDay THEN {"Monday"}
    ELSE {}

CallDay(d) ==
    IF freeCall.data.hasWeek /\ DOMAIN freeCall.data.week # {} THEN freeCall.data.week[d]
    ELSE [classrooms |-> freeCall.data.classrooms, timeSlots |-> freeCall.data.timeSlots]

RangesOf(d) == IF d \in DOMAIN freeCall.out THEN freeCall.out[d] ELSE <<>>

SlotIndicesOf(d) == {CallDay(d).timeSlots[k].index : k \in 1..Len(CallDay(d).timeSlots)}

OccupiedSlot(d, i) == isSlotOccupiedByQuery(CallDay(d).classrooms, i, freeCall.query)

\* the ranges of day d are the complement of the occupied slots
ComplementOfOccupied(d) ==
    /\ \A i \in SlotIndicesOf(d) :
           ~OccupiedSlot(d, i) =>
               Cardinality({n \in 1..Len(RangesOf(d)) :
                                RangesOf(d)[n].startIndex <= i /\ i <= RangesOf(d)[n].endIndex}) = 1
    /\ \A n \in 1..Len(RangesOf(d)) :
           \A i \in SlotIndicesOf(d) :
               (RangesOf(d)[n].startIndex <= i /\ i <= RangesOf(d)[n].endIndex) => ~OccupiedSlot(d, i)
    /\ \A n, m \in 1..Len(RangesOf(d)) :
           RangesOf(d)[n].endIndex + 1 # RangesOf(d)[m].startIndex

\* no range of day d spans an index that is not the index of a slot
NoGapSpanned(d) ==
    \A n \in 1..Len(RangesOf(d)) :
        \A i \in RangesOf(d)[n].startIndex..RangesOf(d)[n].endIndex : i \in SlotIndicesOf(d)

\* C24: in class-text mode the ranges of a day are the exact complement of the
\* slots occupied by the query: each slot that is not occupied lies in exactly
\* one range, no range contains an occupied slot, no two ranges are adjacent
\* and no range spans a gap in the slot indices.
C24_RangesAreMaximalRuns ==
    (freeCall.called /\ ~freeCall.roomMode) =>
        \A d \in CallDays : ComplementOfOccupied(d) /\ NoGapSpanned(d)

\* the rooms listed by range n of day d: few, and none named like a header row
ListedRoomsAreRooms(d, n) ==
    /\ Len(RangesOf(d)[n].availableRooms) <= 5
    /\ \A a \in 1..Len(RangesOf(d)[n].availableRooms) :
           ~isPlaceholderName(RangesOf(d)[n].availableRooms[a].name)

\* the rooms listed by range n of day d have no class at any index of the range
ListedRoomsFreeThroughout(d, n) ==
    \A a \in 1..Len(RangesOf(d)[n].availableRooms) :
        \A k \in 1..Len(CallDay(d).classrooms) :
            CallDay(d).classrooms[k].name = RangesOf(d)[n].availableRooms[a].name =>
                \A i \in RangesOf(d)[n].startIndex..RangesOf(d)[n].endIndex :
                    ~RoomOccupiedAt(CallDay(d).classrooms[k], i)

\* C25: in class-text mode each range lists at most 5 available rooms, none
\* of them has a placeholder name, and every listed room is unoccupied at
\* every slot index of the range.
C25_ListedRoomsFreeInRange ==
    (freeCall.called /\ ~freeCall.roomMode) =>
        \A d \in CallDays : \A n \in 1..Len(RangesOf(d)) :
            ListedRoomsAreRooms(d, n) /\ ListedRoomsFreeThroughout(d, n)

\* C26: findFreeScheduleForQuery runs in room mode exactly when the query has
\* the strict shape of a room id (1-3 letters, an optional hyphen, 1-4
\* digits); every other query, one that matches part of a room name included,
\* runs in class-text mode.
C26_RoomModeIffRoomId ==
    (freeCall.called /\ trim(freeCall.query) # <<>>) =>
        (freeCall.roomMode <=> roomIdPattern(trim(freeCall.query)))

\* some room of the classrooms the mode detection goes through has the query
\* within its name, case ignored
NamesRoom(data, text) ==
    LET rooms == IF data.hasWeek
                 THEN UNION {{data.week[d].classrooms[k].name : k \in 1..Len(data.week[d].classrooms)} :
                                d \in DOMAIN data.week}
                 ELSE {data.classrooms[k].name : k \in 1..Len(data.classrooms)}
    IN  \E name \in rooms : name # <<>> /\ includes(toLowerCase(name), trim(toLowerCase(text)))

\* C26 (amended): room mode exactly when the query has the shape of a room id
\* or is part of the name of a room of the loaded week (of the single day
\* when no week is loaded); in room mode every range lists one room only.
C26_RoomModeIffIdOrName ==
    (freeCall.called /\ trim(freeCall.query) # <<>>) =>
        /\ freeCall.roomMode <=>
               (roomIdPattern(trim(freeCall.query)) \/ NamesRoom(freeCall.data, freeCall.query))
        /\ freeCall.roomMode =>
               \A d \in DOMAIN freeCall.out : \A n \in 1..Len(freeCall.out[d]) :
                   Len(freeCall.out[d][n].availableRooms) = 1

\* a query that is no room id and is part of a room name was answered in room mode
C26_Witness ==
    /\ freeCall.called
    /\ ~roomIdPattern(trim(freeCall.query))
    /\ NamesRoom(freeCall.data, freeCall.query)
    /\ freeCall.roomMode
    /\ DOMAIN freeCall.out # {}

\* C27: the parser of lib/sheets and the API-side parser return the same
\* timeSlots and the same classrooms with the same schedule entries for every
\* raw grid.
C27_ParsersAgree ==
    apiParsed.called =>
        /\ apiParsed.result.threw = parsed.threw
        /\ apiParsed.result.timeSlots = parsed.timeSlots
        /\ apiParsed.result.classrooms = parsed.classrooms

\* C28: only successful results are written to the server cache: no entry of
\* a failed day fetch or a failed search exists in it, and a failure is never
\* served with cached: true.
C28_OnlySuccessesCached ==
    /\ \A key \in DOMAIN cache.schedule : cache.schedule[key].success
    /\ \A key \in DOMAIN cache.search : cache.search[key].success
    /\ response.cached => response.success

\* C29: with client polling enabled and the schedule tab active, every poll
\* tick issues a new request for the week and one for the selected day.
C29_TickRequestsWeekAndDay ==
    poll.ticked => poll.requested = {"all", "day"}

\* C30: the saved list never holds two entries with the same (code, day,
\* time, classroom), and every entry carries the composite id
\* code::day::time::classroom.
C30_SavedEntriesUnique ==
    /\ \A m, o \in 1..Len(savedClasses) :
           (/\ savedClasses[m].code = savedClasses[o].code
            /\ savedClasses[m].day = savedClasses[o].day
            /\ savedClasses[m].time = savedClasses[o].time
            /\ savedClasses[m].classroom = savedClasses[o].classroom) => m = o
    /\ \A m \in 1..Len(savedClasses) :
           /\ savedClasses[m].hasId
           /\ savedClasses[m].id = JoinId(savedClasses[m].code, savedClasses[m].day,
                                          savedClasses[m].time, savedClasses[m].classroom)

====
